---- MODULE Spec2Model ----
(***************************************************************************)
(* A model of the orgish outline parser and serializer                     *)
(* (packages/orgish) and of the workflow helpers built on it               *)
(* (packages/orgish-tools).                                                *)
(*                                                                         *)
(* Representation.  A Rust `char` is a one-character string; a `String` /  *)
(* `&str` without line breaks is a sequence of such characters; a text     *)
(* that may contain line breaks is the sequence of its '\n'-separated      *)
(* pieces (what `split('\n')` yields), so `a.join("\n")` of texts is the   *)
(* concatenation of their piece sequences.  `Option<T>`: None is <<>> and  *)
(* Some(v) is <<v>>.  Indices `i`, `j` keep the 0-based values of the      *)
(* source; `chars[i]` of the source is `chars[i + 1]` here.                *)
(***************************************************************************)
EXTENDS Integers, Sequences, FiniteSets, TLC

VARIABLES
    format,     \* the Format both the parser and the serializer are given
    heading,    \* the line handed to Node::from_heading_str
    hs,         \* the locals of Node::from_heading_str
    hpc,        \* where the heading round trip stands
    hret,       \* what Node::from_heading_str returned
    hout,       \* Node::into_string of the returned node
    text,       \* the text handed to Document::from_str
    ds,         \* the locals of Document::from_str
    dpc,        \* where the document round trip stands
    dret,       \* what Document::from_str returned
    out,        \* Document::into_string of the returned document
    reparsed,   \* what Document::from_str returned for `out`
    call,       \* the last external Node::add_child call and its result
    stamp,      \* the string handed to Timestamp::from_str
    tpc,        \* where the timestamp round trip stands
    tret,       \* what Timestamp::from_str returned
    tout,       \* Timestamp::into_string of the returned timestamp
    tback,      \* what Timestamp::from_str returned for `tout`
    tcall       \* the last call on a Timestamp value and its result

hvars == <<heading, hs, hpc, hret, hout>>
dvars == <<text, ds, dpc, dret, out, reparsed>>
tvars == <<stamp, tpc, tret, tout, tback, tcall>>
vars == <<format, hvars, dvars, call, tvars>>

(***************************************************************************)
(* Option, strings                                                         *)
(***************************************************************************)
None == <<>>
Some(v) == <<v>>
IsSome(o) == o # <<>>
Unwrap(o) == o[1]

\* char::is_whitespace on the modelled alphabet
IsWhitespace(c) == c \in {" ", "\t"}

Digits == {"0", "1", "2", "3", "4", "5", "6", "7", "8", "9"}
DigitSeq == <<"0", "1", "2", "3", "4", "5", "6", "7", "8", "9">>
Letters ==
    {"a", "b", "c", "d", "e", "f", "g", "h", "i", "j", "k", "l", "m",
     "n", "o", "p", "q", "r", "s", "t", "u", "v", "w", "x", "y", "z",
     "A", "B", "C", "D", "E", "F", "G", "H", "I", "J", "K", "L", "M",
     "N", "O", "P", "Q", "R", "S", "T", "U", "V", "W", "X", "Y", "Z"}
\* the one non-ASCII character of the modelled alphabet (a letter)
NonAscii == {"é"}

\* char::is_numeric, char::is_alphabetic, char::is_alphanumeric
IsNumeric(c) == c \in Digits
IsAlphabetic(c) == c \in Letters \cup NonAscii
IsAlphanumeric(c) == IsAlphabetic(c) \/ IsNumeric(c)

DigitVal(c) == (CHOOSE k \in 1..10 : DigitSeq[k] = c) - 1

\* s[a..b] of the source: characters a .. b-1 (0-based), as a sequence
Slice(s, a, b) == SubSeq(s, a + 1, b)

RECURSIVE TrimStart(_)
TrimStart(s) ==
    IF s # <<>> /\ IsWhitespace(Head(s)) THEN TrimStart(Tail(s)) ELSE s

RECURSIVE TrimEnd(_)
TrimEnd(s) ==
    IF s # <<>> /\ IsWhitespace(s[Len(s)])
    THEN TrimEnd(SubSeq(s, 1, Len(s) - 1))
    ELSE s

\* str::trim
Trim(s) == TrimEnd(TrimStart(s))

\* str::starts_with / ends_with for a pattern given as a character sequence
StartsWith(s, p) == Len(s) >= Len(p) /\ SubSeq(s, 1, Len(p)) = p
EndsWith(s, p) ==
    Len(s) >= Len(p) /\ SubSeq(s, Len(s) - Len(p) + 1, Len(s)) = p

\* str::find: the 0-based index of the first occurrence of p in s, or Len(s)
\* when there is none
Find(s, p) ==
    LET hits == {k \in 0..(Len(s) - Len(p)) : SubSeq(s, k + 1, k + Len(p)) = p}
    IN IF hits = {} THEN Len(s)
       ELSE CHOOSE k \in hits : \A m \in hits : k <= m

Contains(s, p) == Find(s, p) < Len(s) \/ (p = <<>>)

\* str::split(sep) for a non-empty separator: the pieces, at least one
RECURSIVE Split(_, _)
Split(s, sep) ==
    LET k == Find(s, sep)
    IN IF k >= Len(s) \/ Len(s) < Len(sep)
       THEN <<s>>
       ELSE <<Slice(s, 0, k)>> \o Split(Slice(s, k + Len(sep), Len(s)), sep)

\* str::splitn(2, sep)
Splitn2(s, sep) ==
    LET k == Find(s, sep)
    IN IF k >= Len(s) \/ Len(s) < Len(sep)
       THEN <<s>>
       ELSE <<Slice(s, 0, k), Slice(s, k + Len(sep), Len(s))>>

\* [String]::join(sep) on character sequences
RECURSIVE Join(_, _)
Join(parts, sep) ==
    IF parts = <<>> THEN <<>>
    ELSE IF Len(parts) = 1 THEN parts[1]
    ELSE parts[1] \o sep \o Join(Tail(parts), sep)

\* concatenation of a sequence of sequences (join("\n") of texts given as
\* their pieces)
RECURSIVE Flatten(_)
Flatten(parts) ==
    IF parts = <<>> THEN <<>> ELSE Head(parts) \o Flatten(Tail(parts))

(***************************************************************************)
(* Dates and times (chrono::NaiveDate, chrono::NaiveTime)                  *)
(* A date is <<year, month, day>>, a time is <<hour, minute>>.             *)
(***************************************************************************)
IsLeap(y) == (y % 4 = 0 /\ y % 100 # 0) \/ y % 400 = 0

DaysInMonth(y, m) ==
    IF m = 2 THEN (IF IsLeap(y) THEN 29 ELSE 28)
    ELSE IF m \in {4, 6, 9, 11} THEN 30 ELSE 31

\* the years chrono's NaiveDate can hold
MinYear == -262143
MaxYear == 262142

\* NaiveDate::from_ymd_opt
FromYmdOpt(y, m, d) ==
    IF y >= MinYear /\ y <= MaxYear /\ m >= 1 /\ m <= 12
       /\ d >= 1 /\ d <= DaysInMonth(y, m)
    THEN Some(<<y, m, d>>)
    ELSE None

RECURSIVE DaysBeforeMonth(_, _)
DaysBeforeMonth(y, m) ==
    IF m <= 1 THEN 0 ELSE DaysBeforeMonth(y, m - 1) + DaysInMonth(y, m - 1)

\* Datelike::num_days_from_ce: 0001-01-01 is day 1
NumDaysFromCe(date) ==
    LET p == date[1] - 1
    IN 365 * p + (p \div 4) - (p \div 100) + (p \div 400)
       + DaysBeforeMonth(date[1], date[2]) + date[3]

\* the "%a" name of the date's weekday; 0001-01-01 is a Monday
DayNames ==
    << <<"M", "o", "n">>, <<"T", "u", "e">>, <<"W", "e", "d">>,
       <<"T", "h", "u">>, <<"F", "r", "i">>, <<"S", "a", "t">>,
       <<"S", "u", "n">> >>
WeekdayName(date) == DayNames[((NumDaysFromCe(date) - 1) % 7) + 1]

\* decimal rendering of a natural number
RECURSIVE ToDec(_)
ToDec(n) ==
    IF n < 10 THEN <<DigitSeq[n + 1]>>
    ELSE ToDec(n \div 10) \o <<DigitSeq[(n % 10) + 1]>>

Pad2(n) == IF n < 10 THEN <<"0">> \o ToDec(n) ELSE ToDec(n)
Pad4(n) ==
    IF n < 10 THEN <<"0", "0", "0">> \o ToDec(n)
    ELSE IF n < 100 THEN <<"0", "0">> \o ToDec(n)
    ELSE IF n < 1000 THEN <<"0">> \o ToDec(n)
    ELSE ToDec(n)

\* date.format("%Y-%m-%d %a"): years outside 0..9999 are written signed
FormatDate(date) ==
    (IF date[1] >= 0 /\ date[1] <= 9999 THEN Pad4(date[1])
     ELSE <<"+">> \o ToDec(date[1]))
    \o <<"-">> \o Pad2(date[2]) \o <<"-">> \o Pad2(date[3])
    \o <<" ">> \o WeekdayName(date)

\* time.format("%H:%M")
FormatTime(time) == Pad2(time[1]) \o <<":">> \o Pad2(time[2])

\* str::parse::<u32>() / ::<i32>() on a piece holding no '-': an optional
\* '+' and then one or more ASCII digits (the pieces are at most eight
\* characters long, so the value always fits)
AllDigits(s) == \A k \in 1..Len(s) : s[k] \in Digits
RECURSIVE DecValue(_)
DecValue(s) ==
    IF s = <<>> THEN 0
    ELSE 10 * DecValue(SubSeq(s, 1, Len(s) - 1)) + DigitVal(s[Len(s)])
ParseInt(s) ==
    LET body == IF s # <<>> /\ s[1] = "+" THEN Tail(s) ELSE s
    IN IF body # <<>> /\ AllDigits(body) THEN Some(DecValue(body)) ELSE None

\* NaiveTime::parse_from_str(s, "%H:%M"): one or two digits, ':', one or
\* two digits, nothing after; hour below 24 and minute below 60
ParseTime(s) ==
    LET hlen == IF Len(s) >= 2 /\ s[1] \in Digits /\ s[2] \in Digits THEN 2
                ELSE IF Len(s) >= 1 /\ s[1] \in Digits THEN 1 ELSE 0
        rest == SubSeq(s, hlen + 2, Len(s))
    IN IF hlen = 0 \/ Len(s) < hlen + 2 \/ s[hlen + 1] # ":" THEN None
       ELSE IF ~(Len(rest) \in {1, 2} /\ AllDigits(rest)) THEN None
       ELSE IF DecValue(SubSeq(s, 1, hlen)) > 23 \/ DecValue(rest) > 59
       THEN None
       ELSE Some(<<DecValue(SubSeq(s, 1, hlen)), DecValue(rest)>>)

(***************************************************************************)
(* Timestamps (timestamp.rs)                                               *)
(* A Timestamp is [start, end, repeater, active] with start a DateTime     *)
(* [date, time], end an Option<DateTime>, repeater an Option<Repeater>     *)
(* [count, unit].  A Result is <<"Ok", v>>, <<"Err", kind>>, or            *)
(* <<"Panic", what>> when the call does not return.                        *)
(***************************************************************************)
Ok(v) == <<"Ok", v>>
Err(e) == <<"Err", e>>
Panic(w) == <<"Panic", w>>
IsOk(r) == r[1] = "Ok"
IsErr(r) == r[1] = "Err"
IsPanic(r) == r[1] = "Panic"

\* RepeaterUnit::from_char
RepeaterUnitFromChar(c) ==
    IF c = "d" THEN Some("Day")
    ELSE IF c = "w" THEN Some("Week")
    ELSE IF c = "m" THEN Some("Month")
    ELSE IF c = "y" THEN Some("Year")
    ELSE None

\* RepeaterUnit::into_char
RepeaterUnitIntoChar(u) ==
    IF u = "Day" THEN "d"
    ELSE IF u = "Week" THEN "w"
    ELSE IF u = "Month" THEN "m"
    ELSE "y"

\* the most digits a usize repeater count can have without overflowing
UsizeDigits == 19

\* one iteration of the `while i < chars.len()` loop of Timestamp::from_str
TsLoopBody(chars, t) ==
    LET c == chars[t.i + 1]
        next_c == IF t.i + 2 <= Len(chars) THEN Some(chars[t.i + 2]) ELSE None
        bad == [t EXCEPT !.res = Err("BadCharacter")]
    IN
    IF t.loc = "Start" THEN
        IF c = " " THEN [t EXCEPT !.i = @ + 1]
        ELSE IF IsAlphabetic(c) THEN [t EXCEPT !.loc = "DayName"]
        ELSE IF IsNumeric(c) THEN [t EXCEPT !.loc = "Time"]
        ELSE IF c = "+" THEN [t EXCEPT !.loc = "Repeater", !.i = @ + 1]
        ELSE bad
    ELSE IF t.loc = "DayName" THEN
        IF c = " " THEN
            IF IsSome(next_c) THEN
                IF IsNumeric(Unwrap(next_c))
                THEN [t EXCEPT !.loc = "Time", !.i = @ + 1]
                ELSE IF Unwrap(next_c) = "+"
                THEN [t EXCEPT !.loc = "Repeater", !.i = @ + 2]
                ELSE bad
            ELSE [t EXCEPT !.i = @ + 1]
        ELSE IF IsAlphabetic(c) /\ Len(t.day_name) < 3
        THEN [t EXCEPT !.day_name = Append(@, c), !.i = @ + 1]
        ELSE IF IsAlphabetic(c)
        THEN [t EXCEPT !.res = Err("DayNameTooLong")]
        ELSE bad
    ELSE IF t.loc = "Time" THEN
        IF c = " " THEN
            IF IsSome(next_c) THEN
                IF Unwrap(next_c) = "+"
                THEN [t EXCEPT !.loc = "Repeater", !.i = @ + 1]
                ELSE bad
            ELSE [t EXCEPT !.i = @ + 1]
        ELSE IF IsNumeric(c) \/ c = ":" THEN
            IF t.has_end_time
            THEN [t EXCEPT !.end_time = Append(@, c), !.i = @ + 1]
            ELSE [t EXCEPT !.start_time = Append(@, c), !.i = @ + 1]
        ELSE IF c = "-" THEN [t EXCEPT !.has_end_time = TRUE, !.i = @ + 1]
        ELSE bad
    ELSE \* Repeater
        IF IsNumeric(c)
        THEN [t EXCEPT !.repeater_count = Append(@, c), !.i = @ + 1]
        ELSE IF IsAlphabetic(c) THEN
            \* repeater_count.parse::<usize>().unwrap()
            IF t.repeater_count = <<>> \/ Len(t.repeater_count) > UsizeDigits
            THEN [t EXCEPT !.res = Panic("repeater_count.parse().unwrap()")]
            ELSE IF IsSome(RepeaterUnitFromChar(c))
            THEN [t EXCEPT !.repeater =
                               Some([count |-> DecValue(t.repeater_count),
                                     unit |-> Unwrap(RepeaterUnitFromChar(c))]),
                           !.i = @ + 1]
            ELSE [t EXCEPT !.res = Err("BadRepeaterUnit")]
        ELSE [t EXCEPT !.i = @ + 1]

RECURSIVE TsLoop(_, _)
TsLoop(chars, t) ==
    IF t.res # Ok("run") \/ t.i >= Len(chars) THEN t
    ELSE CHOOSE r \in {TsLoop(chars, next) : next \in {TsLoopBody(chars, t)}} :
             TRUE

\* Timestamp::from_str for a string without the range delimiter `--`
TimestampFromStrSingle(raw) ==
    IF \E k \in 1..Len(raw) : raw[k] \in NonAscii THEN Err("NotAscii")
    ELSE IF Len(raw) < 12 THEN Err("TooShort")
    ELSE IF ~((raw[1] = "<" /\ raw[Len(raw)] = ">")
              \/ (raw[1] = "[" /\ raw[Len(raw)] = "]"))
    THEN Err("InvalidStartEnd")
    ELSE
    LET active == raw[1] = "<"
        inner == Slice(raw, 1, Len(raw) - 1)
        date_str == Slice(inner, 0, 10)
        remaining == Slice(inner, 10, Len(inner))
        date_parts == Split(date_str, <<"-">>)
    IN
    IF Len(date_parts) # 3 THEN Err("InvalidDate")
    ELSE IF ~IsSome(ParseInt(date_parts[1])) THEN Err("InvalidYear")
    ELSE IF ~IsSome(ParseInt(date_parts[2])) THEN Err("InvalidMonth")
    ELSE IF ~IsSome(ParseInt(date_parts[3])) THEN Err("InvalidDay")
    ELSE
    LET date == FromYmdOpt(Unwrap(ParseInt(date_parts[1])),
                           Unwrap(ParseInt(date_parts[2])),
                           Unwrap(ParseInt(date_parts[3])))
        t == TsLoop(remaining,
                    [i |-> 0, loc |-> "Start", day_name |-> <<>>,
                     repeater_count |-> <<>>, has_end_time |-> FALSE,
                     start_time |-> <<>>, end_time |-> <<>>,
                     repeater |-> None, res |-> Ok("run")])
    IN
    IF ~IsSome(date) THEN Err("InvalidDateComponents")
    ELSE IF t.res # Ok("run") THEN t.res
    ELSE IF t.start_time # <<>> /\ ~IsSome(ParseTime(t.start_time))
    THEN Err("InvalidTime")
    ELSE IF t.end_time # <<>> /\ ~IsSome(ParseTime(t.end_time))
    THEN Err("InvalidTime")
    ELSE Ok([start |-> [date |-> Unwrap(date),
                        time |-> IF t.start_time # <<>>
                                 THEN ParseTime(t.start_time) ELSE None],
             end |-> IF t.end_time # <<>>
                     THEN Some([date |-> Unwrap(date),
                                time |-> ParseTime(t.end_time)])
                     ELSE None,
             repeater |-> t.repeater,
             active |-> active])

\* Timestamp::from_str
RECURSIVE TimestampFromStr(_)
TimestampFromStr(raw0) ==
    LET raw == Trim(raw0)
    IN
    IF Contains(raw, <<"-", "-">>) THEN
        LET range_parts == Splitn2(raw, <<"-", "-">>)
            start_ts == TimestampFromStr(range_parts[1])
            end_ts == TimestampFromStr(range_parts[2])
        IN
        IF ~IsOk(start_ts) THEN start_ts
        ELSE IF ~IsOk(end_ts) THEN end_ts
        ELSE IF IsSome(start_ts[2].end) \/ IsSome(end_ts[2].end)
        THEN Err("RangeInRange")
        ELSE Ok([start |-> start_ts[2].start,
                 end |-> Some(end_ts[2].start),
                 repeater |-> start_ts[2].repeater,
                 active |-> start_ts[2].active \/ end_ts[2].active])
    ELSE TimestampFromStrSingle(raw)

\* Repeater::into_string
RepeaterIntoString(r) ==
    <<"+">> \o ToDec(r.count) \o <<RepeaterUnitIntoChar(r.unit)>>

\* Timestamp::into_string
TimestampIntoString(ts) ==
    LET open == IF ts.active THEN "<" ELSE "["
        close == IF ts.active THEN ">" ELSE "]"
        start_str ==
            <<open>> \o FormatDate(ts.start.date)
            \o (IF IsSome(ts.start.time)
                THEN <<" ">> \o FormatTime(Unwrap(ts.start.time)) ELSE <<>>)
        tail ==
            (IF IsSome(ts.repeater)
             THEN <<" ">> \o RepeaterIntoString(Unwrap(ts.repeater)) ELSE <<>>)
            \o <<close>>
    IN
    IF IsSome(ts.end) THEN
        LET end == Unwrap(ts.end)
        IN IF end.date = ts.start.date
           THEN start_str
                \o (IF IsSome(end.time)
                    THEN <<"-">> \o FormatTime(Unwrap(end.time)) ELSE <<>>)
                \o tail
           ELSE start_str \o <<close, "-", "-", open>>
                \o FormatDate(end.date)
                \o (IF IsSome(end.time)
                    THEN <<" ">> \o FormatTime(Unwrap(end.time)) ELSE <<>>)
                \o <<close>>
    ELSE start_str \o tail

(***************************************************************************)
(* Repeats (timestamp.rs): date arithmetic, Timestamp::get_next_repeat,    *)
(* Timestamp::into_next_repeat_after, Timestamp::into_next_repeat.  A call *)
(* that returns gives Ok(value); one that does not gives Panic(what).      *)
(***************************************************************************)
\* NaiveDate's ordering
DateLt(a, b) ==
    \/ a[1] < b[1]
    \/ a[1] = b[1] /\ a[2] < b[2]
    \/ a[1] = b[1] /\ a[2] = b[2] /\ a[3] < b[3]

\* (a - b).num_days()
NumDays(a, b) == NumDaysFromCe(a) - NumDaysFromCe(b)

\* date + Duration::try_days(n).unwrap(), a month at a time
RECURSIVE AddDays(_, _)
AddDays(date, n) ==
    IF n >= 0 THEN
        IF date[3] + n <= DaysInMonth(date[1], date[2])
        THEN <<date[1], date[2], date[3] + n>>
        ELSE AddDays(IF date[2] < 12 THEN <<date[1], date[2] + 1, 1>>
                     ELSE <<date[1] + 1, 1, 1>>,
                     n - (DaysInMonth(date[1], date[2]) - date[3]) - 1)
    ELSE
        IF date[3] + n >= 1 THEN <<date[1], date[2], date[3] + n>>
        ELSE AddDays(IF date[2] > 1
                     THEN <<date[1], date[2] - 1,
                            DaysInMonth(date[1], date[2] - 1)>>
                     ELSE <<date[1] - 1, 12, 31>>,
                     n + date[3])

\* the RepeaterUnit::Day and RepeaterUnit::Week arms of get_next_repeat,
\* for a period of `period` days
NextRepeatDays(date, after_date, period) ==
    IF period = 0 THEN Panic("remainder by zero")
    ELSE IF NumDays(after_date, date) % period = 0 THEN Ok(Some(after_date))
    ELSE Ok(Some(AddDays(date,
                         period * ((NumDays(after_date, date) \div period)
                                   + 1))))

\* the RepeaterUnit::Month arm from `next_months` on: `next_date` is
\* unwrapped before the day index is looked at
NextRepeatMonthNext(date, after_date, months_diff, count, next_months) ==
    IF ~IsSome(FromYmdOpt(next_months \div 12, (next_months % 12) + 1,
                          date[3]))
    THEN Panic("NaiveDate::from_ymd_opt().unwrap()")
    ELSE IF months_diff % count = 0 THEN
        IF after_date[3] > date[3]
        THEN Ok(Some(<<next_months \div 12, (next_months % 12) + 1, date[3]>>))
        ELSE IF after_date[3] < date[3] THEN
            \* after_date.with_day0(date.day0()).unwrap_or(next_date)
            IF date[3] <= DaysInMonth(after_date[1], after_date[2])
            THEN Ok(Some(<<after_date[1], after_date[2], date[3]>>))
            ELSE Ok(Some(<<next_months \div 12, (next_months % 12) + 1,
                           date[3]>>))
        ELSE Ok(Some(after_date))
    ELSE Ok(Some(<<next_months \div 12, (next_months % 12) + 1, date[3]>>))

\* the RepeaterUnit::Month arm of get_next_repeat
NextRepeatMonths(date, after_date, count) ==
    IF count = 0 THEN Panic("divide by zero")
    ELSE NextRepeatMonthNext(
             date, after_date,
             (after_date[1] * 12 + after_date[2] - 1)
                 - (date[1] * 12 + date[2] - 1),
             count,
             (date[1] * 12 + date[2] - 1)
                 + ((((after_date[1] * 12 + after_date[2] - 1)
                          - (date[1] * 12 + date[2] - 1)) \div count) + 1)
                   * count)

\* the RepeaterUnit::Year arm of get_next_repeat from `next_years` on
NextRepeatYearNext(date, after_date, years_diff, count, next_years) ==
    IF ~IsSome(FromYmdOpt(next_years, date[2], date[3]))
    THEN Panic("NaiveDate::from_ymd_opt().unwrap()")
    ELSE IF years_diff % count = 0 THEN
        IF (after_date[2] - 1) * 100 + after_date[3] - 1
               > (date[2] - 1) * 100 + date[3] - 1
        THEN Ok(Some(<<next_years, date[2], date[3]>>))
        ELSE IF (after_date[2] - 1) * 100 + after_date[3] - 1
                    < (date[2] - 1) * 100 + date[3] - 1
        THEN \* with_day0(0), with_month0(date.month0()), with_day0(date.day0())
             IF IsSome(FromYmdOpt(after_date[1], date[2], date[3]))
             THEN Ok(Some(<<after_date[1], date[2], date[3]>>))
             ELSE Panic("with_day0().unwrap()")
        ELSE Ok(Some(after_date))
    ELSE Ok(Some(<<next_years, date[2], date[3]>>))

\* the RepeaterUnit::Year arm of get_next_repeat
NextRepeatYears(date, after_date, count) ==
    IF count = 0 THEN Panic("divide by zero")
    ELSE NextRepeatYearNext(
             date, after_date, after_date[1] - date[1], count,
             date[1] + (((after_date[1] - date[1]) \div count) + 1) * count)

\* Timestamp::get_next_repeat
GetNextRepeat(self, after_date) ==
    IF DateLt(after_date, self.start.date) THEN Ok(Some(self.start.date))
    ELSE IF ~IsSome(self.repeater) THEN Ok(None)
    ELSE IF Unwrap(self.repeater).unit = "Day"
    THEN NextRepeatDays(self.start.date, after_date,
                        Unwrap(self.repeater).count)
    ELSE IF Unwrap(self.repeater).unit = "Week"
    THEN NextRepeatDays(self.start.date, after_date,
                        Unwrap(self.repeater).count * 7)
    ELSE IF Unwrap(self.repeater).unit = "Month"
    THEN NextRepeatMonths(self.start.date, after_date,
                          Unwrap(self.repeater).count)
    ELSE NextRepeatYears(self.start.date, after_date,
                         Unwrap(self.repeater).count)

\* Timestamp::into_next_repeat_after once get_next_repeat has returned:
\* Ok(Ok(timestamp)), Ok(Err(self)) or the panic of get_next_repeat
IntoNextRepeatWith(self, next_repeat) ==
    IF ~IsOk(next_repeat) THEN next_repeat
    ELSE IF ~IsSome(next_repeat[2]) THEN Ok(Err(self))
    ELSE Ok(Ok([start |-> [date |-> Unwrap(next_repeat[2]),
                           time |-> self.start.time],
                end |-> IF IsSome(self.end)
                        THEN Some([date |->
                                       AddDays(Unwrap(next_repeat[2]),
                                               NumDays(Unwrap(self.end).date,
                                                       self.start.date)),
                                   time |-> Unwrap(self.end).time])
                        ELSE None,
                repeater |-> self.repeater,
                active |-> self.active]))

\* Timestamp::into_next_repeat_after
IntoNextRepeatAfter(self, after_date) ==
    IntoNextRepeatWith(self, GetNextRepeat(self, after_date))

\* Timestamp::into_next_repeat
IntoNextRepeat(self) == IntoNextRepeatAfter(self, AddDays(self.start.date, 1))

\* in_range_mod(x, (0, end), c): Ok(<<in range, normalised>>), or the panic
\* of `x % 0`
InRangeMod(x, end, c) ==
    IF x < 0 \/ (IsSome(end) /\ Unwrap(end) < 0) THEN Ok(<<FALSE, 0>>)
    ELSE IF c = 0 THEN Panic("remainder by zero")
    ELSE IF IsSome(end) THEN Ok(<<(x % c) <= Unwrap(end), x % c>>)
    ELSE Ok(<<(x % c) = 0, x % c>>)

\* the RepeaterUnit::Month and RepeaterUnit::Year arms of includes_date once
\* in_range_mod has returned; `start`, `target` and `endp` are day0 (Month)
\* or month0 * 100 + day0 (Year), `end_units` the end's distance from the
\* start in months (years)
IncludesUnit(r, end_units, start, target, endp) ==
    IF ~IsOk(r) THEN r
    ELSE IF ~r[2][1] THEN Ok(FALSE)
    ELSE IF r[2][2] = 0 THEN
        IF IsSome(end_units) /\ Unwrap(end_units) = 0
        THEN Ok(start <= target /\ target <= Unwrap(endp))
        ELSE Ok(start <= target)
    ELSE IF IsSome(end_units) /\ Unwrap(end_units) = r[2][2]
    THEN Ok(target <= Unwrap(endp))
    ELSE Ok(TRUE)

\* Option::map over the end of a timestamp
MapEnd(self, F(_)) ==
    IF IsSome(self.end) THEN Some(F(Unwrap(self.end).date)) ELSE None

\* months since year 0 and the month-and-day ordinal of a date
MonthsOf(date) == date[1] * 12 + date[2] - 1
OrdinalOf(date) == (date[2] - 1) * 100 + date[3] - 1

\* the first component of an in_range_mod result
InRange(r) == IF IsOk(r) THEN Ok(r[2][1]) ELSE r

\* Timestamp::includes_date
IncludesDate(self, date) ==
    IF IsSome(self.repeater) THEN
        IF Unwrap(self.repeater).unit = "Day" THEN
            InRange(InRangeMod(NumDays(date, self.start.date),
                               MapEnd(self, LAMBDA e :
                                          NumDays(e, self.start.date)),
                               Unwrap(self.repeater).count))
        ELSE IF Unwrap(self.repeater).unit = "Week" THEN
            InRange(InRangeMod(NumDays(date, self.start.date),
                               MapEnd(self, LAMBDA e :
                                          NumDays(e, self.start.date)),
                               Unwrap(self.repeater).count * 7))
        ELSE IF Unwrap(self.repeater).unit = "Month" THEN
            IncludesUnit(
                InRangeMod(MonthsOf(date) - MonthsOf(self.start.date),
                           MapEnd(self, LAMBDA e :
                                      MonthsOf(e) - MonthsOf(self.start.date)),
                           Unwrap(self.repeater).count),
                MapEnd(self, LAMBDA e : MonthsOf(e) - MonthsOf(self.start.date)),
                self.start.date[3] - 1, date[3] - 1,
                MapEnd(self, LAMBDA e : e[3] - 1))
        ELSE
            IncludesUnit(
                InRangeMod(date[1] - self.start.date[1],
                           MapEnd(self, LAMBDA e : e[1] - self.start.date[1]),
                           Unwrap(self.repeater).count),
                MapEnd(self, LAMBDA e : e[1] - self.start.date[1]),
                OrdinalOf(self.start.date), OrdinalOf(date),
                MapEnd(self, LAMBDA e : OrdinalOf(e)))
    ELSE IF IsSome(self.end)
    THEN Ok(~DateLt(date, self.start.date)
            /\ ~DateLt(Unwrap(self.end).date, date))
    ELSE Ok(date = self.start.date)

(***************************************************************************)
(* Formats, keywords, nodes (format.rs, tests/mod.rs, lib.rs)              *)
(***************************************************************************)
Formats == {"Org", "Markdown"}

\* Format::heading_char
HeadingChar(f) == IF f = "Markdown" THEN "#" ELSE "*"

\* Format::get_properties_opener
PropertiesOpener(f) ==
    IF f = "Markdown"
    THEN <<"<", "!", "-", "-", "P", "R", "O", "P", "E", "R", "T", "I", "E", "S">>
    ELSE <<":", "P", "R", "O", "P", "E", "R", "T", "I", "E", "S", ":">>

\* Format::get_properties_closer
PropertiesCloser(f) ==
    IF f = "Markdown" THEN <<"-", "-", ">">>
    ELSE <<":", "E", "N", "D", ":">>

\* the keyword capability the crate's tests supply: CustomKeyword
TODO == <<"T", "O", "D", "O">>
PROJ == <<"P", "R", "O", "J">>

\* <CustomKeyword as Keyword>::from_str
KeywordFromStr(s) ==
    IF s = TODO THEN Some(<<"Todo">>)
    ELSE IF s = PROJ THEN Some(<<"Proj">>)
    ELSE None

\* <CustomKeyword as Keyword>::into_string
KeywordIntoString(k) ==
    IF k[1] = "Todo" THEN TODO
    ELSE IF k[1] = "Proj" THEN PROJ
    ELSE k[2]

\* <CustomKeyword as Keyword>::other
KeywordOther(s) == <<"Other", s>>

\* the largest value of the u8 `level`
U8Max == 255

\* HashMap<String, S>: a function from the keys present to their values
EmptyMap == [k \in {} |-> <<>>]
MapInsert(m, key, value) ==
    [k \in (DOMAIN m) \cup {key} |-> IF k = key THEN value ELSE m[k]]

\* Planning::default, Properties::default (with StringId::initial)
DefaultPlanning == [deadline |-> None, scheduled |-> None, closed |-> None]
DefaultProperties == [id |-> None, inner |-> EmptyMap]

\* Node::default
DefaultNode ==
    [level |-> 0, title |-> <<>>, priority |-> None, tags |-> <<>>,
     planning |-> DefaultPlanning, properties |-> DefaultProperties,
     keyword |-> None, body |-> None, timestamps |-> <<>>,
     children |-> <<>>]

\* Node::new
NewNode(level, title, body) ==
    [DefaultNode EXCEPT !.level = level, !.title = title, !.body = body]

\* add_child with `>=` for `>`: a child of its parent's own level is taken
AddChildGe(self, child) ==
    IF child.level >= self.level
    THEN <<Ok(<<>>), [self EXCEPT !.children = Append(@, child)]>>
    ELSE <<Err([kind |-> "InvalidChildLevel",
                parent_level |-> self.level,
                bad_child_level |-> child.level]),
           self>>

\* add_child with the two levels of the error exchanged
AddChildSwapped(self, child) ==
    IF child.level > self.level
    THEN <<Ok(<<>>), [self EXCEPT !.children = Append(@, child)]>>
    ELSE <<Err([kind |-> "InvalidChildLevel",
                parent_level |-> child.level,
                bad_child_level |-> self.level]),
           self>>

\* add_child putting the child before the children already there
AddChildFirst(self, child) ==
    IF child.level > self.level
    THEN <<Ok(<<>>), [self EXCEPT !.children = <<child>> \o @]>>
    ELSE <<Err([kind |-> "InvalidChildLevel",
                parent_level |-> self.level,
                bad_child_level |-> child.level]),
           self>>

\* Node::add_child: <<result, node afterwards>>
AddChild(self, child) ==
    IF child.level > self.level
    THEN <<Ok(<<>>), [self EXCEPT !.children = Append(@, child)]>>
    ELSE <<Err([kind |-> "InvalidChildLevel",
                parent_level |-> self.level,
                bad_child_level |-> child.level]),
           self>>

(***************************************************************************)
(* The heading tokenizer (heading_parser.rs)                               *)
(***************************************************************************)
\* parse_priority
ParsePriority(chars) ==
    IF chars # <<>> /\ chars[1] = "["
       /\ Len(chars) >= 2 /\ chars[2] = "#"
       /\ chars[Len(chars)] = "]"
    THEN Some(Slice(chars, 2, Len(chars) - 1))
    ELSE None

\* the locals of Node::from_heading_str when the loop is entered
HeadingLocals(line) ==
    [chars |-> Append(line, " "), i |-> 0, loc |-> "Stars",
     tokens_parsed |-> 0, keyword_status |-> "None", potential_kw |-> <<>>,
     priority_status |-> "None", curr |-> <<>>, node |-> DefaultNode,
     flow |-> "loop"]

\* the `for j in (i + 1)..(chars.len() - 1)` loop of the tag branch:
\* <<was_valid, tags>>
RECURSIVE TagLoop(_, _, _, _)
TagLoop(chars, j, tags, tag) ==
    IF j >= Len(chars) - 1 THEN <<TRUE, tags>>
    ELSE LET c == chars[j + 1]
         IN IF c = ":" THEN TagLoop(chars, j + 1, Append(tags, tag), <<>>)
            ELSE IF IsAlphanumeric(c) \/ c = "_" \/ c = "@"
            THEN TagLoop(chars, j + 1, tags, Append(tag, c))
            ELSE <<FALSE, tags>>

\* the `for j in i..chars.len()` loop of the timestamp branch: the index of
\* the first '>' at or after i, or chars.len() when there is none
RECURSIVE TimestampLoop(_, _)
TimestampLoop(chars, j) ==
    IF j >= Len(chars) THEN Len(chars)
    ELSE IF chars[j + 1] = ">" THEN j
    ELSE TimestampLoop(chars, j + 1)

\* the Stars arm without its `return None`: a character that is neither a
\* marker nor a space is skipped
StarsArmLenient(s, f) ==
    LET c == s.chars[s.i + 1]
    IN IF c = HeadingChar(f) THEN
           IF s.node.level = U8Max THEN [s EXCEPT !.flow = "overflow"]
           ELSE [s EXCEPT !.node.level = @ + 1, !.i = @ + 1]
       ELSE IF c = " "
       THEN [s EXCEPT !.loc = "PreTitle", !.tokens_parsed = 0,
                      !.keyword_status = "None", !.priority_status = "None",
                      !.curr = <<>>, !.i = @ + 1]
       ELSE [s EXCEPT !.i = @ + 1]

\* the NodeParseLocation::Stars arm
StarsArm(s, f) ==
    LET c == s.chars[s.i + 1]
    IN IF c = HeadingChar(f) THEN
           IF s.node.level = U8Max THEN [s EXCEPT !.flow = "overflow"]
           ELSE [s EXCEPT !.node.level = @ + 1, !.i = @ + 1]
       ELSE IF c = " "
       THEN [s EXCEPT !.loc = "PreTitle", !.tokens_parsed = 0,
                      !.keyword_status = "None", !.priority_status = "None",
                      !.curr = <<>>, !.i = @ + 1]
       ELSE [s EXCEPT !.flow = "return_none"]

\* the PreTitle arm rewinding one character too far past an ambiguous
\* keyword
PreTitleTokenFar(s) ==
    LET is_end == s.i = Len(s.chars) - 1
        tokens_parsed == s.tokens_parsed + 1
        kw == KeywordFromStr(s.curr)
        pr == ParsePriority(s.curr)
        \* the token interpreted
        s1 == IF IsSome(kw)
              THEN [s EXCEPT !.node.keyword = kw,
                             !.keyword_status = "Definite"]
              ELSE IF IsSome(pr)
              THEN [s EXCEPT !.node.priority = pr,
                             !.priority_status = "Found"]
              ELSE IF s.keyword_status # "Ambiguous"
              THEN [s EXCEPT !.keyword_status = "Ambiguous",
                             !.potential_kw = s.curr, !.curr = <<>>]
              ELSE s
        ks == s1.keyword_status
        ps == s1.priority_status
        back1 == s1.i - Len(s1.curr) - 1
        back2 == s1.i - (Len(s1.curr) + Len(s1.potential_kw) + 3)
        s2 == IF ks = "None" /\ ps = "None"
              THEN [s1 EXCEPT !.flow = "unreachable"]
              ELSE IF ps = "Found" /\ ks \in {"None", "Definite"}
              THEN [s1 EXCEPT !.loc = "Title"]
              ELSE IF ps = "Found"
              THEN [s1 EXCEPT !.node.keyword =
                                  Some(KeywordOther(s1.potential_kw)),
                              !.loc = "Title"]
              ELSE IF ks = "Definite"
              THEN IF tokens_parsed >= 2
                   THEN IF back1 < 0 THEN [s1 EXCEPT !.flow = "overflow"]
                        ELSE [s1 EXCEPT !.i = back1, !.loc = "Title"]
                   ELSE s1
              ELSE IF tokens_parsed >= 2 \/ is_end
                   THEN IF back2 < 0 THEN [s1 EXCEPT !.flow = "overflow"]
                        ELSE [s1 EXCEPT !.i = back2, !.loc = "Title"]
                   ELSE s1
    IN IF s2.flow # "loop" THEN s2
       ELSE [s2 EXCEPT !.tokens_parsed = tokens_parsed, !.curr = <<>>,
                       !.i = @ + 1]

\* the NodeParseLocation::PreTitle arm on a space: the token in `curr` is
\* classified, then the (keyword_status, priority_status) pair is matched
PreTitleToken(s) ==
    LET is_end == s.i = Len(s.chars) - 1
        tokens_parsed == s.tokens_parsed + 1
        kw == KeywordFromStr(s.curr)
        pr == ParsePriority(s.curr)
        \* the token interpreted
        s1 == IF IsSome(kw)
              THEN [s EXCEPT !.node.keyword = kw,
                             !.keyword_status = "Definite"]
              ELSE IF IsSome(pr)
              THEN [s EXCEPT !.node.priority = pr,
                             !.priority_status = "Found"]
              ELSE IF s.keyword_status # "Ambiguous"
              THEN [s EXCEPT !.keyword_status = "Ambiguous",
                             !.potential_kw = s.curr, !.curr = <<>>]
              ELSE s
        ks == s1.keyword_status
        ps == s1.priority_status
        back1 == s1.i - Len(s1.curr) - 1
        back2 == s1.i - (Len(s1.curr) + Len(s1.potential_kw) + 2)
        s2 == IF ks = "None" /\ ps = "None"
              THEN [s1 EXCEPT !.flow = "unreachable"]
              ELSE IF ps = "Found" /\ ks \in {"None", "Definite"}
              THEN [s1 EXCEPT !.loc = "Title"]
              ELSE IF ps = "Found"
              THEN [s1 EXCEPT !.node.keyword =
                                  Some(KeywordOther(s1.potential_kw)),
                              !.loc = "Title"]
              ELSE IF ks = "Definite"
              THEN IF tokens_parsed >= 2
                   THEN IF back1 < 0 THEN [s1 EXCEPT !.flow = "overflow"]
                        ELSE [s1 EXCEPT !.i = back1, !.loc = "Title"]
                   ELSE s1
              ELSE IF tokens_parsed >= 2 \/ is_end
                   THEN IF back2 < 0 THEN [s1 EXCEPT !.flow = "overflow"]
                        ELSE [s1 EXCEPT !.i = back2, !.loc = "Title"]
                   ELSE s1
    IN IF s2.flow # "loop" THEN s2
       ELSE [s2 EXCEPT !.tokens_parsed = tokens_parsed, !.curr = <<>>,
                       !.i = @ + 1]

\* the NodeParseLocation::PreTitle arm
PreTitleArm(s) ==
    IF s.chars[s.i + 1] = " " THEN PreTitleToken(s)
    ELSE [s EXCEPT !.curr = Append(@, s.chars[s.i + 1]), !.i = @ + 1]

\* the NodeParseLocation::Title arm
TitleArm(s) ==
    LET c == s.chars[s.i + 1]
        next_c == IF s.i + 2 <= Len(s.chars)
                  THEN Some(s.chars[s.i + 2]) ELSE None
        is_tag_starter == c = ":" /\ next_c # Some(" ") /\ next_c # Some(":")
        is_timestamp_starter ==
            c = "<" /\ next_c # Some(" ") /\ next_c # Some("<")
        tl == TagLoop(s.chars, s.i + 1, <<>>, <<>>)
        j == TimestampLoop(s.chars, s.i)
        \* the characters pushed to `timestamp`, and `i` after the inner loop
        timestamp == IF j < Len(s.chars) THEN Slice(s.chars, s.i, j + 1)
                     ELSE Slice(s.chars, s.i, Len(s.chars))
        i_after == IF j < Len(s.chars) THEN j + 1 ELSE s.i
        parsed == TimestampFromStr(timestamp)
    IN
    IF is_tag_starter THEN
        IF tl[1] THEN [s EXCEPT !.node.tags = tl[2], !.flow = "break"]
        ELSE [s EXCEPT !.curr = Append(@, c), !.i = @ + 1]
    ELSE IF is_timestamp_starter THEN
        IF IsPanic(parsed) THEN [s EXCEPT !.flow = "panic"]
        ELSE IF IsOk(parsed)
        THEN [s EXCEPT !.node.timestamps = Append(@, parsed[2]),
                       !.i = i_after + 1]
        ELSE [s EXCEPT !.curr = Append(@, c), !.i = i_after + 1]
    ELSE [s EXCEPT !.curr = Append(@, c), !.i = @ + 1]

\* one iteration of the `while i < chars.len()` loop of from_heading_str
HeadingLoopBody(s, f) ==
    IF s.loc = "Stars" THEN StarsArm(s, f)
    ELSE IF s.loc = "PreTitle" THEN PreTitleArm(s)
    ELSE TitleArm(s)

\* the code after the loop: the title is set when the title was reached
HeadingResult(s) ==
    IF s.flow = "return_none" THEN Ok(None)
    ELSE IF s.flow \in {"overflow", "unreachable", "panic"} THEN Panic(s.flow)
    ELSE IF s.loc = "Title"
    THEN Ok(Some([s.node EXCEPT !.title = Trim(s.curr)]))
    ELSE Ok(Some(s.node))

RECURSIVE HeadingLoop(_, _)
HeadingLoop(s, f) ==
    IF s.flow # "loop" \/ s.i >= Len(s.chars) THEN s
    ELSE CHOOSE r \in {HeadingLoop(next, f) : next \in {HeadingLoopBody(s, f)}} :
             TRUE

\* Node::from_heading_str: Ok(None), Ok(Some(node)), or Panic
FromHeadingStr(line, f) ==
    IF line # <<>> /\ line[1] = HeadingChar(f)
    THEN HeadingResult(HeadingLoop(HeadingLocals(line), f))
    ELSE Ok(None)

(***************************************************************************)
(* The serializer (into_format.rs)                                         *)
(* A text is the sequence of its lines; the empty string is one empty line *)
(***************************************************************************)
EmptyText == << <<>> >>

\* Vec<String>::join("\n") on texts
JoinLines(parts) == IF parts = <<>> THEN EmptyText ELSE Flatten(parts)

\* the characters of the model in the order of their code points, which is
\* the order `sort()` puts strings in
CharOrder ==
    <<"\t", " ", "!", "#", "*", "+", "-",
      "0", "1", "2", "3", "4", "5", "6", "7", "8", "9",
      ":", "<", "=", ">", "@",
      "A", "B", "C", "D", "E", "F", "G", "H", "I", "J", "K", "L", "M",
      "N", "O", "P", "Q", "R", "S", "T", "U", "V", "W", "X", "Y", "Z",
      "[", "]", "_",
      "a", "b", "c", "d", "e", "f", "g", "h", "i", "j", "k", "l", "m",
      "n", "o", "p", "q", "r", "s", "t", "u", "v", "w", "x", "y", "z",
      "é">>
CharCode(c) == CHOOSE k \in 1..Len(CharOrder) : CharOrder[k] = c

\* <String as Ord>::le
RECURSIVE StrLe(_, _)
StrLe(a, b) ==
    IF a = <<>> THEN TRUE
    ELSE IF b = <<>> THEN FALSE
    ELSE IF a[1] = b[1] THEN StrLe(Tail(a), Tail(b))
    ELSE CharCode(a[1]) < CharCode(b[1])

\* keys.sort()
RECURSIVE SortKeys(_)
SortKeys(keys) ==
    IF keys = {} THEN <<>>
    ELSE LET least == CHOOSE k \in keys : \A m \in keys : StrLe(k, m)
         IN <<least>> \o SortKeys(keys \ {least})

\* Priority::into_string
PriorityIntoString(p) ==
    IF IsSome(p) THEN <<"[", "#">> \o Unwrap(p) \o <<"]">> ELSE <<>>

\* Tags::into_string
TagsIntoString(tags) ==
    IF tags = <<>> THEN <<>>
    ELSE <<":">> \o Flatten([k \in 1..Len(tags) |-> tags[k] \o <<":">>])

\* Planning::into_string with SCHEDULED added before DEADLINE
PlanningScheduledFirst(p) ==
    LET item(prop, name) ==
            IF IsSome(prop)
            THEN <<name \o <<":", " ">> \o TimestampIntoString(Unwrap(prop))>>
            ELSE <<>>
        planning_items ==
            item(p.scheduled,
                 <<"S", "C", "H", "E", "D", "U", "L", "E", "D">>)
            \o item(p.deadline, <<"D", "E", "A", "D", "L", "I", "N", "E">>)
            \o item(p.closed, <<"C", "L", "O", "S", "E", "D">>)
    IN IF planning_items = <<>> THEN EmptyText ELSE planning_items

\* Planning::into_string
PlanningIntoString(p) ==
    LET item(prop, name) ==
            IF IsSome(prop)
            THEN <<name \o <<":", " ">> \o TimestampIntoString(Unwrap(prop))>>
            ELSE <<>>
        planning_items ==
            item(p.deadline, <<"D", "E", "A", "D", "L", "I", "N", "E">>)
            \o item(p.scheduled,
                    <<"S", "C", "H", "E", "D", "U", "L", "E", "D">>)
            \o item(p.closed, <<"C", "L", "O", "S", "E", "D">>)
    IN IF planning_items = <<>> THEN EmptyText ELSE planning_items

\* Properties::into_string
PropertiesIntoString(p, f) ==
    IF ~IsSome(p.id) /\ DOMAIN p.inner = {} THEN EmptyText
    ELSE
    LET keys == SortKeys(DOMAIN p.inner)
        id_line ==
            IF IsSome(p.id)
            THEN <<(IF f = "Markdown" THEN <<"I", "D", ":", " ">>
                    ELSE <<":", "I", "D", ":", " ">>) \o Unwrap(p.id)>>
            ELSE <<>>
        key_line(k) ==
            (IF f = "Org" THEN <<":">> ELSE <<>>)
            \o k \o <<":", " ">> \o p.inner[k]
    IN <<PropertiesOpener(f)>> \o id_line
       \o [n \in 1..Len(keys) |-> key_line(keys[n])]
       \o <<PropertiesCloser(f)>>

\* the heading line Node::into_string writes for a node of level > 0
HeadingIntoString(node, f) ==
    LET with_space_after(thing) ==
            IF thing = <<>> THEN <<>> ELSE thing \o <<" ">>
        with_space_before(thing) ==
            IF thing = <<>> THEN <<>> ELSE <<" ">> \o thing
        stars == [k \in 1..node.level |-> HeadingChar(f)]
        tags_str == with_space_before(TagsIntoString(node.tags))
        keyword == with_space_after(
                       IF IsSome(node.keyword)
                       THEN KeywordIntoString(Unwrap(node.keyword))
                       ELSE <<>>)
        priority == with_space_after(PriorityIntoString(node.priority))
        timestamps ==
            with_space_before(
                Join([k \in 1..Len(node.timestamps) |->
                         TimestampIntoString(node.timestamps[k])],
                     <<" ">>))
    IN Trim(stars \o <<" ">> \o keyword \o priority \o node.title
            \o timestamps \o tags_str)

\* Node::into_string
RECURSIVE NodeIntoString(_, _)
NodeIntoString(node, f) ==
    LET nonempty(part) == IF part = EmptyText THEN <<>> ELSE <<part>>
        own ==
            IF node.level > 0
            THEN nonempty(<<HeadingIntoString(node, f)>>)
                 \o nonempty(PlanningIntoString(node.planning))
                 \o nonempty(PropertiesIntoString(node.properties, f))
            ELSE nonempty(PropertiesIntoString(node.properties, f))
        body == IF IsSome(node.body) THEN <<Unwrap(node.body)>> ELSE <<>>
        children == [k \in 1..Len(node.children) |->
                        NodeIntoString(node.children[k], f)]
    IN JoinLines(own \o body \o children)

(***************************************************************************)
(* The node tree (lib.rs).  A `&mut Node` into the document is the path of *)
(* child positions (1-based) that leads to it from the root.               *)
(***************************************************************************)
RECURSIVE NodeAt(_, _)
NodeAt(node, path) ==
    IF path = <<>> THEN node
    ELSE NodeAt(node.children[Head(path)], Tail(path))

\* the tree with the node at `path` replaced by `new`
RECURSIVE SetAt(_, _, _)
SetAt(node, path, new) ==
    IF path = <<>> THEN new
    ELSE [node EXCEPT !.children[Head(path)] = SetAt(@, Tail(path), new)]

\* Document::get_last_node_at_level: Some(path) or None
RECURSIVE LastNodeWalk(_, _, _, _)
LastNodeWalk(root, curr_parent, curr_level, level) ==
    IF curr_level < level
    THEN IF NodeAt(root, curr_parent).children = <<>> THEN None
         ELSE CHOOSE r \in
                 {LastNodeWalk(root, next, curr_level + 1, level) :
                     next \in {Append(curr_parent,
                                      Len(NodeAt(root, curr_parent).children))}} :
                 TRUE
    ELSE Some(curr_parent)
\* get_last_node_at_level descending through the first children instead of
\* the last
RECURSIVE FirstNodeWalk(_, _, _, _)
FirstNodeWalk(root, curr_parent, curr_level, level) ==
    IF curr_level < level
    THEN IF NodeAt(root, curr_parent).children = <<>> THEN None
         ELSE CHOOSE r \in
                 {FirstNodeWalk(root, next, curr_level + 1, level) :
                     next \in {Append(curr_parent, 1)}} :
                 TRUE
    ELSE Some(curr_parent)
GetFirstNodeAtLevel(root, level) == FirstNodeWalk(root, <<>>, 0, level)
GetLastNodeAtLevel(root, level) == LastNodeWalk(root, <<>>, 0, level)

\* every path of the tree, the root's (<<>>) included
RECURSIVE Paths(_)
Paths(node) ==
    {<<>>} \cup UNION {{<<k>> \o p : p \in Paths(node.children[k])} :
                          k \in 1..Len(node.children)}

\* Planning::add_line: None when the line is no planning line, else
\* Some(<<result, planning afterwards>>)
PlanningSet(planning, field, parsed) ==
    IF IsOk(parsed)
    THEN Some(<<Ok(<<>>), [planning EXCEPT ![field] = Some(parsed[2])]>>)
    ELSE Some(<<parsed, planning>>)
PlanningAddParts(planning, parts) ==
    IF Len(parts) # 2 THEN None
    ELSE IF Trim(parts[1]) = <<"D", "E", "A", "D", "L", "I", "N", "E">>
    THEN PlanningSet(planning, "deadline", TimestampFromStr(Trim(parts[2])))
    ELSE IF Trim(parts[1]) = <<"S", "C", "H", "E", "D", "U", "L", "E", "D">>
    THEN PlanningSet(planning, "scheduled", TimestampFromStr(Trim(parts[2])))
    ELSE IF Trim(parts[1]) = <<"C", "L", "O", "S", "E", "D">>
    THEN PlanningSet(planning, "closed", TimestampFromStr(Trim(parts[2])))
    ELSE None
PlanningAddLine(planning, line) ==
    PlanningAddParts(planning, Splitn2(line, <<":">>))

\* Properties::add_line (with StringId::parse, which accepts every value):
\* <<result, properties afterwards>>
PropertiesAddLine(props, line0) ==
    LET line == IF line0 # <<>> /\ line0[1] = ":" THEN Tail(line0) ELSE line0
        parts == Splitn2(line, <<":">>)
        key == Trim(parts[1])
        value == Trim(parts[2])
    IN IF Len(parts) # 2 THEN <<Err([kind |-> "InvalidProperty"]), props>>
       ELSE IF key = <<"I", "D">>
       THEN <<Ok(<<>>), [props EXCEPT !.id = Some(value)]>>
       ELSE <<Ok(<<>>), [props EXCEPT !.inner = MapInsert(@, key, value)]>>

(***************************************************************************)
(* The document parser (parser.rs)                                         *)
(***************************************************************************)
\* str::lines: the '\n'-separated pieces, without a final empty one
Lines(t) == IF t[Len(t)] = <<>> THEN SubSeq(t, 1, Len(t) - 1) ELSE t

\* String::push_str and String::push('\n') on a text
PushStr(t, line) == [t EXCEPT ![Len(t)] = @ \o line]
PushNewline(t) == Append(t, <<>>)

\* the `finish_body` closure: the value written to `body`
FinishBody(curr_body) ==
    IF curr_body = <<>> THEN None ELSE Some(curr_body)

\* ParseLocation::is_start
IsStart(loc) == loc[1] \in {"OrgStart", "MarkdownStart"}

Fence(trimmed_line) ==
    trimmed_line = <<"-", "-", "-">> \/ trimmed_line = <<"+", "+", "+">>

\* the locals of Document::from_str when the loop is entered
DocLocals(t, f) ==
    [lines |-> Lines(t), i |-> 0,
     loc |-> IF f = "Org" THEN <<"OrgStart", "Beginning">>
             ELSE <<"MarkdownStart", "Beginning", FALSE>>,
     root |-> DefaultNode, document_attributes |-> EmptyText,
     curr_node |-> DefaultNode, curr_parent |-> <<>>, curr_body |-> <<>>,
     flow |-> Ok("run")]

\* the arm taken when the line is a heading
NewNodeArm(s, new_node) ==
    IF IsStart(s.loc)
    THEN [s EXCEPT !.curr_node = new_node,
                   !.root = SetAt(s.root, s.curr_parent,
                                  [NodeAt(s.root, s.curr_parent)
                                      EXCEPT !.body = FinishBody(s.curr_body)]),
                   !.curr_body = <<>>,
                   !.loc = <<"Planning">>, !.i = @ + 1]
    ELSE
    LET last_node == [s.curr_node EXCEPT !.body = FinishBody(s.curr_body)]
        new_level == new_node.level
        curr_level == s.curr_node.level
        added == AddChild(NodeAt(s.root, s.curr_parent), last_node)
        root1 == SetAt(s.root, s.curr_parent, added[2])
        found == IF new_level < curr_level
                 THEN GetLastNodeAtLevel(root1, new_level - 1)
                 ELSE IF new_level > curr_level
                 THEN GetLastNodeAtLevel(root1, curr_level)
                 ELSE Some(s.curr_parent)
    IN IF ~IsOk(added[1]) THEN [s EXCEPT !.flow = added[1]]
       ELSE IF new_level < curr_level /\ new_level = 0
       THEN [s EXCEPT !.flow = Panic("overflow")]
       ELSE IF ~IsSome(found)
       THEN [s EXCEPT !.flow = Panic("get_last_node_at_level().unwrap()")]
       ELSE [s EXCEPT !.curr_node = new_node, !.curr_body = <<>>,
                      !.root = root1, !.curr_parent = Unwrap(found),
                      !.loc = <<"Planning">>, !.i = @ + 1]

\* `curr_parent.properties.add_line(trimmed_line)?` on the root
RootPropertyLine(s, trimmed_line) ==
    LET r == PropertiesAddLine(NodeAt(s.root, s.curr_parent).properties,
                               trimmed_line)
    IN IF ~IsOk(r[1]) THEN [s EXCEPT !.flow = r[1]]
       ELSE [s EXCEPT !.root = SetAt(s.root, s.curr_parent,
                                     [NodeAt(s.root, s.curr_parent)
                                         EXCEPT !.properties = r[2]]),
                      !.i = @ + 1]

\* the OrgStart arm taking a drawer opener met in Content as the opener of
\* the root drawer
OrgStartArmReopens(s, line, f) ==
    LET trimmed_line == Trim(line)
        start_loc == s.loc[2]
    IN
    IF start_loc = "Beginning" \/ trimmed_line = PropertiesOpener(f) THEN
        IF trimmed_line = PropertiesOpener(f)
        THEN [s EXCEPT !.loc = <<"OrgStart", "Properties">>, !.i = @ + 1]
        ELSE IF trimmed_line # <<>>
        THEN [s EXCEPT !.loc = <<"OrgStart", "Content">>]
        ELSE [s EXCEPT !.i = @ + 1]
    ELSE IF start_loc = "Properties" THEN
        IF trimmed_line = PropertiesCloser(f)
        THEN [s EXCEPT !.loc = <<"OrgStart", "Content">>, !.i = @ + 1]
        ELSE IF trimmed_line # <<>> THEN RootPropertyLine(s, trimmed_line)
        ELSE [s EXCEPT !.i = @ + 1]
    ELSE \* Content
        IF StartsWith(line, <<"#", "+">>)
        THEN [s EXCEPT !.document_attributes =
                           PushStr(IF s.document_attributes # EmptyText
                                   THEN PushNewline(s.document_attributes)
                                   ELSE s.document_attributes, line),
                       !.i = @ + 1]
        ELSE [s EXCEPT !.curr_body = Append(@, line), !.i = @ + 1]

\* the ParseLocation::OrgStart arm
OrgStartArm(s, line, f) ==
    LET trimmed_line == Trim(line)
        start_loc == s.loc[2]
    IN
    IF start_loc = "Beginning" THEN
        IF trimmed_line = PropertiesOpener(f)
        THEN [s EXCEPT !.loc = <<"OrgStart", "Properties">>, !.i = @ + 1]
        ELSE IF trimmed_line # <<>>
        THEN [s EXCEPT !.loc = <<"OrgStart", "Content">>]
        ELSE [s EXCEPT !.i = @ + 1]
    ELSE IF start_loc = "Properties" THEN
        IF trimmed_line = PropertiesCloser(f)
        THEN [s EXCEPT !.loc = <<"OrgStart", "Content">>, !.i = @ + 1]
        ELSE IF trimmed_line # <<>> THEN RootPropertyLine(s, trimmed_line)
        ELSE [s EXCEPT !.i = @ + 1]
    ELSE \* Content
        IF StartsWith(line, <<"#", "+">>)
        THEN [s EXCEPT !.document_attributes =
                           PushStr(IF s.document_attributes # EmptyText
                                   THEN PushNewline(s.document_attributes)
                                   ELSE s.document_attributes, line),
                       !.i = @ + 1]
        ELSE [s EXCEPT !.curr_body = Append(@, line), !.i = @ + 1]

\* the MarkdownStart arm keeping the buffered blank lines when the root
\* drawer opens
MarkdownStartArmKeeps(s, line, f) ==
    LET trimmed_line == Trim(line)
        start_loc == s.loc[2]
    IN
    IF start_loc = "Beginning" THEN
        IF Fence(trimmed_line) /\ ~s.loc[3]
        THEN [s EXCEPT !.document_attributes = PushStr(@, line),
                       !.loc = <<"MarkdownStart", "Frontmatter">>,
                       !.i = @ + 1]
        ELSE IF trimmed_line = PropertiesOpener(f)
        THEN [s EXCEPT !.loc = <<"MarkdownStart", "Properties">>,
                       !.i = @ + 1]
        ELSE IF trimmed_line # <<>>
        THEN [s EXCEPT !.loc = <<"MarkdownStart", "Content">>]
        ELSE IF s.loc[3]
        THEN [s EXCEPT !.curr_body = Append(@, <<>>), !.i = @ + 1]
        ELSE [s EXCEPT !.i = @ + 1]
    ELSE IF start_loc = "Frontmatter" THEN
        IF Fence(trimmed_line)
        THEN [s EXCEPT !.document_attributes = PushStr(PushNewline(@), line),
                       !.loc = <<"MarkdownStart", "Beginning", TRUE>>,
                       !.i = @ + 1]
        ELSE [s EXCEPT !.document_attributes = PushStr(PushNewline(@), line),
                       !.i = @ + 1]
    ELSE IF start_loc = "Properties" THEN
        IF trimmed_line = PropertiesCloser(f)
        THEN [s EXCEPT !.loc = <<"MarkdownStart", "Content">>, !.i = @ + 1]
        ELSE IF trimmed_line # <<>> THEN RootPropertyLine(s, trimmed_line)
        ELSE [s EXCEPT !.i = @ + 1]
    ELSE \* Content
        [s EXCEPT !.curr_body = Append(@, line), !.i = @ + 1]

\* the ParseLocation::MarkdownStart arm
MarkdownStartArm(s, line, f) ==
    LET trimmed_line == Trim(line)
        start_loc == s.loc[2]
    IN
    IF start_loc = "Beginning" THEN
        IF Fence(trimmed_line) /\ ~s.loc[3]
        THEN [s EXCEPT !.document_attributes = PushStr(@, line),
                       !.loc = <<"MarkdownStart", "Frontmatter">>,
                       !.i = @ + 1]
        ELSE IF trimmed_line = PropertiesOpener(f)
        THEN [s EXCEPT !.curr_body = <<>>,
                       !.loc = <<"MarkdownStart", "Properties">>,
                       !.i = @ + 1]
        ELSE IF trimmed_line # <<>>
        THEN [s EXCEPT !.loc = <<"MarkdownStart", "Content">>]
        ELSE IF s.loc[3]
        THEN [s EXCEPT !.curr_body = Append(@, <<>>), !.i = @ + 1]
        ELSE [s EXCEPT !.i = @ + 1]
    ELSE IF start_loc = "Frontmatter" THEN
        IF Fence(trimmed_line)
        THEN [s EXCEPT !.document_attributes = PushStr(PushNewline(@), line),
                       !.loc = <<"MarkdownStart", "Beginning", TRUE>>,
                       !.i = @ + 1]
        ELSE [s EXCEPT !.document_attributes = PushStr(PushNewline(@), line),
                       !.i = @ + 1]
    ELSE IF start_loc = "Properties" THEN
        IF trimmed_line = PropertiesCloser(f)
        THEN [s EXCEPT !.loc = <<"MarkdownStart", "Content">>, !.i = @ + 1]
        ELSE IF trimmed_line # <<>> THEN RootPropertyLine(s, trimmed_line)
        ELSE [s EXCEPT !.i = @ + 1]
    ELSE \* Content
        [s EXCEPT !.curr_body = Append(@, line), !.i = @ + 1]

\* the Planning arm moving past the line that is no planning line instead
\* of parsing it again as the first body line
PlanningAddedSkips(s, added) ==
    IF IsSome(added) THEN
        IF ~IsOk(Unwrap(added)[1])
        THEN [s EXCEPT !.flow = Unwrap(added)[1]]
        ELSE [s EXCEPT !.curr_node.planning = Unwrap(added)[2], !.i = @ + 1]
    ELSE [s EXCEPT !.loc = <<"Body">>, !.i = @ + 1]

\* the ParseLocation::Planning arm
PlanningAdded(s, added) ==
    IF IsSome(added) THEN
        IF ~IsOk(Unwrap(added)[1])
        THEN [s EXCEPT !.flow = Unwrap(added)[1]]
        ELSE [s EXCEPT !.curr_node.planning = Unwrap(added)[2], !.i = @ + 1]
    ELSE [s EXCEPT !.loc = <<"Body">>]
PlanningArm(s, line, f) ==
    IF Trim(line) = PropertiesOpener(f)
    THEN [s EXCEPT !.loc = <<"Properties">>, !.i = @ + 1]
    ELSE PlanningAdded(s, PlanningAddLine(s.curr_node.planning, line))

\* the ParseLocation::Properties arm
PropertiesArm(s, line, f) ==
    LET trimmed_line == Trim(line)
        r == PropertiesAddLine(s.curr_node.properties, trimmed_line)
    IN IF trimmed_line = PropertiesCloser(f)
       THEN [s EXCEPT !.loc = <<"Body">>, !.i = @ + 1]
       ELSE IF trimmed_line # <<>> THEN
           IF ~IsOk(r[1]) THEN [s EXCEPT !.flow = r[1]]
           ELSE [s EXCEPT !.curr_node.properties = r[2], !.i = @ + 1]
       ELSE [s EXCEPT !.i = @ + 1]

\* one iteration of the `while i < lines.len()` loop of Document::from_str
DocLine(s, line, new_node, f) ==
    IF IsPanic(new_node) THEN [s EXCEPT !.flow = new_node]
    ELSE IF IsSome(new_node[2]) THEN NewNodeArm(s, Unwrap(new_node[2]))
    ELSE IF s.loc[1] = "OrgStart" THEN OrgStartArm(s, line, f)
    ELSE IF s.loc[1] = "MarkdownStart" THEN MarkdownStartArm(s, line, f)
    ELSE IF s.loc[1] = "Planning" THEN PlanningArm(s, line, f)
    ELSE IF s.loc[1] = "Properties" THEN PropertiesArm(s, line, f)
    ELSE [s EXCEPT !.curr_body = Append(@, line), !.i = @ + 1]
DocLoopBody(s, f) ==
    DocLine(s, s.lines[s.i + 1], FromHeadingStr(s.lines[s.i + 1], f), f)

(***************************************************************************)
(* The attribute store (lib.rs, into_format.rs).  Attributes::None is      *)
(* <<"None">>; Attributes::Org(map) is <<"Org", map>> with the IndexMap a  *)
(* sequence of <<key, value>> pairs in insertion order; a Markdown         *)
(* frontmatter block is kept as the text between and including its fences, *)
(* <<"Frontmatter", text>>.                                                *)
(***************************************************************************)
TITLE == <<"t", "i", "t", "l", "e">>
FILETAGS == <<"f", "i", "l", "e", "t", "a", "g", "s">>

\* IndexMap::get
IndexMapGet(map, key) ==
    LET hits == {k \in 1..Len(map) : map[k][1] = key}
    IN IF hits = {} THEN None ELSE Some(map[CHOOSE k \in hits : TRUE][2])

\* IndexMap::insert: an existing key keeps its place
IndexMapInsert(map, key, value) ==
    IF IsSome(IndexMapGet(map, key))
    THEN [k \in 1..Len(map) |->
             IF map[k][1] = key THEN <<key, value>> ELSE map[k]]
    ELSE Append(map, <<key, value>>)

\* IndexMap::shift_remove
IndexMapShiftRemove(map, key) == SelectSeq(map, LAMBDA e : e[1] # key)

\* the conversion of the attribute text the parser collected to the
\* attribute store: an Org `#+key: value` line gives one entry
RECURSIVE OrgAttributeMap(_, _)
OrgAttributeMap(lines, map) ==
    IF lines = <<>> THEN map
    ELSE LET parts == Splitn2(Slice(Head(lines), 2, Len(Head(lines))), <<":">>)
         IN CHOOSE r \in
                {OrgAttributeMap(Tail(lines), next) :
                    next \in {IndexMapInsert(map, Trim(parts[1]),
                                             IF Len(parts) = 2
                                             THEN Trim(parts[2])
                                             ELSE <<>>)}} : TRUE
\* serde_yaml::Value, as far as attributes use it: a string or a sequence
\* of strings
Str(s) == <<"Str", s>>
Sequence(v) == <<"Seq", v>>

\* a string YAML reads and writes as a plain scalar: letters only
YamlPlain(s) ==
    /\ s # <<>>
    /\ \A k \in 1..Len(s) :
           s[k] \in {"a", "b", "c", "d", "e", "f", "g", "h", "i", "j", "k",
                     "l", "m", "n", "o", "p", "q", "r", "s", "t", "u", "v",
                     "w", "x", "y", "z", "K", "T", "U", "V"}

\* the `- item` lines at the head of `lines`
RECURSIVE YamlItems(_)
YamlItems(lines) ==
    IF lines # <<>> /\ StartsWith(Head(lines), <<"-", " ">>)
       /\ YamlPlain(Slice(Head(lines), 2, Len(Head(lines))))
    THEN <<Slice(Head(lines), 2, Len(Head(lines)))>> \o YamlItems(Tail(lines))
    ELSE <<>>

\* the mapping of the lines of a YAML front matter made of `key: value`,
\* `key: []` and `key:` with `- item` lines, keys distinct; None for
\* every other front matter
RECURSIVE YamlMapping(_, _)
YamlMapping(lines, map) ==
    IF lines = <<>> THEN Some(map)
    ELSE
    LET line == Head(lines)
        at == Find(line, <<":">>)
        key == Slice(line, 0, at)
        rest == Slice(line, at + 1, Len(line))
        items == YamlItems(Tail(lines))
    IN IF at >= Len(line) \/ ~YamlPlain(key) \/ IsSome(IndexMapGet(map, key))
       THEN None
       ELSE IF rest = <<>> /\ items # <<>>
       THEN YamlMapping(SubSeq(lines, 2 + Len(items), Len(lines)),
                        Append(map, <<key, Sequence(items)>>))
       ELSE IF rest = <<" ", "[", "]">>
       THEN YamlMapping(Tail(lines), Append(map, <<key, Sequence(<<>>)>>))
       ELSE IF Len(rest) >= 2 /\ rest[1] = " " /\ YamlPlain(Tail(rest))
       THEN YamlMapping(Tail(lines), Append(map, <<key, Str(Tail(rest))>>))
       ELSE None

\* the attribute store of the attribute text the parser collected: the
\* map of the `#+key: value` lines, the mapping of a YAML front matter; a
\* front matter the model does not read stays "Frontmatter", its text
AttributesFromString(document_attributes, f) ==
    LET n == Len(document_attributes)
        fence == <<"-", "-", "-">>
        inner == YamlMapping(SubSeq(document_attributes, 2, n - 1), <<>>)
    IN IF document_attributes = EmptyText THEN <<"None">>
       ELSE IF f = "Org"
       THEN <<"Org", OrgAttributeMap(document_attributes, <<>>)>>
       ELSE IF n >= 3 /\ document_attributes[1] = fence
               /\ document_attributes[n] = fence /\ IsSome(inner)
       THEN <<"MarkdownYaml", Unwrap(inner)>>
       ELSE <<"Frontmatter", document_attributes>>

TAGS == <<"t", "a", "g", "s">>
AUTHOR == <<"a", "u", "t", "h", "o", "r">>
IsMapping(attributes) == attributes[1] \in {"MarkdownYaml", "MarkdownToml"}

\* Mapping::remove and Table::remove: the entry's place is either closed up
\* or taken by the last entry, depending on the library version and its
\* order-preserving feature
MappingRemove(map, key, swap) ==
    LET hits == {k \in 1..Len(map) : map[k][1] = key}
        at == CHOOSE k \in hits : TRUE
    IN IF hits = {} THEN map
       ELSE IF swap /\ at < Len(map)
       THEN [k \in 1..(Len(map) - 1) |->
                IF k = at THEN map[Len(map)] ELSE map[k]]
       ELSE IndexMapShiftRemove(map, key)

\* Attributes::title, for stores that hold a string under `title`
AttributesTitle(attributes) ==
    IF attributes[1] = "Org" /\ IsSome(IndexMapGet(attributes[2], TITLE))
    THEN Unwrap(IndexMapGet(attributes[2], TITLE))
    ELSE IF IsMapping(attributes) /\ IsSome(IndexMapGet(attributes[2], TITLE))
    THEN Unwrap(IndexMapGet(attributes[2], TITLE))[2]
    ELSE <<>>

\* Attributes::tags, for stores that hold a sequence of strings under `tags`
AttributesTags(attributes) ==
    IF attributes[1] = "Org" /\ IsSome(IndexMapGet(attributes[2], FILETAGS))
    THEN SelectSeq(Split(Unwrap(IndexMapGet(attributes[2], FILETAGS)), <<":">>),
                   LAMBDA t : t # <<>>)
    ELSE IF IsMapping(attributes) /\ IsSome(IndexMapGet(attributes[2], TAGS))
    THEN Unwrap(IndexMapGet(attributes[2], TAGS))[2]
    ELSE <<>>

\* the errors of Attributes::title and Attributes::tags: a `title` that is
\* no string, a `tags` that is no sequence of strings
AttributesChecked(attributes) ==
    IF ~IsMapping(attributes) THEN Ok(<<>>)
    ELSE IF IsSome(IndexMapGet(attributes[2], TITLE))
            /\ Unwrap(IndexMapGet(attributes[2], TITLE))[1] # "Str"
    THEN Err([kind |-> "RootTitleNotString"])
    ELSE IF IsSome(IndexMapGet(attributes[2], TAGS))
            /\ Unwrap(IndexMapGet(attributes[2], TAGS))[1] # "Seq"
    THEN Err([kind |-> "RootTagsNotStringVec"])
    ELSE Ok(<<>>)

\* Attributes::set_title
AttributesSetTitle(attributes, title, f, swap) ==
    IF attributes[1] = "Org"
    THEN IF title = <<>>
         THEN <<"Org", IndexMapShiftRemove(attributes[2], TITLE)>>
         ELSE <<"Org", IndexMapInsert(attributes[2], TITLE, title)>>
    ELSE IF IsMapping(attributes)
    THEN IF title = <<>>
         THEN <<attributes[1], MappingRemove(attributes[2], TITLE, swap)>>
         ELSE <<attributes[1], IndexMapInsert(attributes[2], TITLE, Str(title))>>
    ELSE IF attributes[1] = "None" /\ title # <<>>
    THEN IF f = "Org" THEN <<"Org", <<<<TITLE, title>>>>>>
         ELSE <<"MarkdownYaml", <<<<TITLE, Str(title)>>>>>>
    ELSE attributes

\* Attributes::set_tags
AttributesSetTags(attributes, tags, f, swap) ==
    LET value == <<":">> \o Join(tags, <<":">>) \o <<":">>
    IN IF attributes[1] = "Org"
       THEN IF tags = <<>>
            THEN <<"Org", IndexMapShiftRemove(attributes[2], FILETAGS)>>
            ELSE <<"Org", IndexMapInsert(attributes[2], FILETAGS, value)>>
       ELSE IF IsMapping(attributes)
       THEN IF tags = <<>>
            THEN <<attributes[1], MappingRemove(attributes[2], TAGS, swap)>>
            ELSE <<attributes[1], IndexMapInsert(attributes[2], TAGS, Sequence(tags))>>
       ELSE IF attributes[1] = "None" /\ tags # <<>>
       THEN IF f = "Org" THEN <<"Org", <<<<FILETAGS, value>>>>>>
            ELSE <<"MarkdownYaml", <<<<TAGS, Sequence(tags)>>>>>>
       ELSE attributes

\* serde_yaml::to_string of a mapping, as lines: `key: value` for a string,
\* `key:` and one `- item` line per item for a sequence, `key: []` for an
\* empty one, `{}` for the empty mapping (strings that YAML writes plainly)
YamlEntry(e) ==
    IF e[2][1] = "Str" THEN <<e[1] \o <<":", " ">> \o e[2][2]>>
    ELSE IF e[2][2] = <<>> THEN <<e[1] \o <<":", " ", "[", "]">>>>
    ELSE <<e[1] \o <<":">>>>
         \o [k \in 1..Len(e[2][2]) |-> <<"-", " ">> \o e[2][2][k]]
YamlToString(map) ==
    IF map = <<>> THEN <<<<"{", "}">>>>
    ELSE Flatten([k \in 1..Len(map) |-> YamlEntry(map[k])])

\* the inline TOML of a value: a quoted string or an array of them
TomlValue(v) ==
    IF v[1] = "Str" THEN <<"\"">> \o v[2] \o <<"\"">>
    ELSE <<"[">>
         \o Join([k \in 1..Len(v[2]) |-> <<"\"">> \o v[2][k] \o <<"\"">>],
                 <<",", " ">>)
         \o <<"]">>
\* toml::to_string of a table of strings and arrays, as lines
TomlToString(map) ==
    [k \in 1..Len(map) |-> map[k][1] \o <<" ", "=", " ">> \o TomlValue(map[k][2])]

\* the Org -> Markdown arm of Attributes::into_string: the YAML mapping
\* built from an Org map
RECURSIVE OrgToYaml(_, _)
OrgToYaml(map, yaml_map) ==
    IF map = <<>> THEN yaml_map
    ELSE OrgToYaml(Tail(map),
            IF Head(map)[1] = FILETAGS
            THEN IndexMapInsert(yaml_map, TAGS,
                     Sequence(SelectSeq(Split(Head(map)[2], <<":">>),
                                   LAMBDA t : t # <<>>)))
            ELSE IndexMapInsert(yaml_map, Head(map)[1], Str(Head(map)[2])))

\* the value of a YAML (TOML) entry other than `tags` as the Markdown -> Org
\* arm writes it on one line
YamlOrgValue(v) ==
    IF v[1] = "Str" THEN v[2]
    ELSE IF v[2] = <<>> THEN <<"[", "]">>
    ELSE Join([k \in 1..Len(v[2]) |-> <<"-", " ">> \o v[2][k]], <<"\\", "n">>)
TomlOrgValue(v) == IF v[1] = "Str" THEN v[2] ELSE TomlValue(v)

\* the Markdown -> Org arm of Attributes::into_string: the Org map built
\* from a YAML mapping or a TOML table; a `tags` that is no sequence makes
\* as_sequence().unwrap() panic
RECURSIVE MappingToOrg(_, _, _)
MappingToOrg(map, org_map, variant) ==
    IF map = <<>> THEN Ok(org_map)
    ELSE IF Head(map)[1] = TAGS
    THEN IF Head(map)[2][1] # "Seq" THEN Panic("as_sequence().unwrap()")
         ELSE MappingToOrg(Tail(map),
                  IndexMapInsert(org_map, FILETAGS,
                      <<":">> \o Join(Head(map)[2][2], <<":">>) \o <<":">>),
                  variant)
    ELSE MappingToOrg(Tail(map),
             IndexMapInsert(org_map, Head(map)[1],
                 IF variant = "MarkdownYaml" THEN YamlOrgValue(Head(map)[2])
                 ELSE TomlOrgValue(Head(map)[2])),
             variant)

\* the Org arm's `#+key: value` lines
OrgLines(map) ==
    IF map = <<>> THEN EmptyText
    ELSE [k \in 1..Len(map) |->
             <<"#", "+">> \o map[k][1] \o <<":", " ">> \o map[k][2]]

\* Attributes::into_string; "Frontmatter" is the front matter of a parsed
\* Markdown text, which is written as it was read
AttributesIntoString(attributes, f) ==
    IF attributes[1] = "Frontmatter" THEN attributes[2]
    ELSE IF attributes[1] = "None" THEN EmptyText
    ELSE IF f = "Markdown"
    THEN IF attributes[1] = "MarkdownYaml"
         THEN <<<<"-", "-", "-">>>> \o YamlToString(attributes[2])
              \o <<<<"-", "-", "-">>>>
         ELSE IF attributes[1] = "MarkdownToml"
         THEN <<<<"+", "+", "+">>>> \o TomlToString(attributes[2])
              \o <<<<"+", "+", "+">>>>
         ELSE <<<<"-", "-", "-">>>> \o YamlToString(OrgToYaml(attributes[2], <<>>))
              \o <<<<"-", "-", "-">>>>
    ELSE IF attributes[1] = "Org" THEN OrgLines(attributes[2])
    ELSE OrgLines(MappingToOrg(attributes[2], <<>>, attributes[1])[2])

\* the code of Document::from_str after the loop: Ok(document), Err or Panic
DocResult(s, f) ==
    IF s.flow # Ok("run") THEN s.flow
    ELSE IF ~IsOk(AttributesChecked(AttributesFromString(s.document_attributes, f)))
    THEN AttributesChecked(AttributesFromString(s.document_attributes, f))
    ELSE
    LET attributes == AttributesFromString(s.document_attributes, f)
        sync(root) == [root EXCEPT !.title = AttributesTitle(attributes),
                                   !.tags = AttributesTags(attributes)]
        last_node == [s.curr_node EXCEPT !.body = FinishBody(s.curr_body)]
        added == AddChild(NodeAt(s.root, s.curr_parent), last_node)
    IN IF IsStart(s.loc)
       THEN Ok([root |-> sync(SetAt(s.root, s.curr_parent,
                                    [NodeAt(s.root, s.curr_parent)
                                        EXCEPT !.body = FinishBody(s.curr_body)])),
                attributes |-> attributes])
       ELSE IF ~IsOk(added[1]) THEN added[1]
       ELSE Ok([root |-> sync(SetAt(s.root, s.curr_parent, added[2])),
                attributes |-> attributes])

RECURSIVE DocLoop(_, _)
DocLoop(s, f) ==
    IF s.flow # Ok("run") \/ s.i >= Len(s.lines) THEN s
    ELSE CHOOSE r \in {DocLoop(next, f) : next \in {DocLoopBody(s, f)}} : TRUE

\* Document::from_str
DocumentFromStr(t, f) == DocResult(DocLoop(DocLocals(t, f), f), f)

\* str::replacen(":END", ":END:\n{attributes_str}", 1) on a text
ReplaceEnd(root_str, attributes_str) ==
    LET pat == <<":", "E", "N", "D">>
        hits == {n \in 1..Len(root_str) : Contains(root_str[n], pat)}
    IN IF hits = {} THEN root_str
       ELSE
       LET n == CHOOSE k \in hits : \A m \in hits : k <= m
           at == Find(root_str[n], pat)
           pre == Slice(root_str[n], 0, at)
           post == Slice(root_str[n], at + 4, Len(root_str[n]))
           m == Len(attributes_str)
       IN SubSeq(root_str, 1, n - 1)
          \o <<pre \o <<":", "E", "N", "D", ":">>>>
          \o SubSeq(attributes_str, 1, m - 1)
          \o <<attributes_str[m] \o post>>
          \o SubSeq(root_str, n + 1, Len(root_str))

\* Document::into_string
DocumentIntoString(document, f, swap) ==
    LET attributes ==
            AttributesSetTags(
                AttributesSetTitle(document.attributes, document.root.title, f,
                                   swap),
                document.root.tags, f, swap)
        root_str == NodeIntoString(document.root, f)
        attributes_str == AttributesIntoString(attributes, f)
    IN IF attributes_str = EmptyText THEN root_str
       ELSE IF f = "Org" /\ StartsWith(root_str[1], PropertiesOpener("Org"))
       THEN ReplaceEnd(root_str, attributes_str)
       ELSE attributes_str \o root_str

(***************************************************************************)
(* Inputs                                                                  *)
(***************************************************************************)
MaxStars == 2       \* longest marker run of a heading line
MaxTokens == 3      \* most space-separated tokens after the marker run
MaxRawLen == 3      \* longest line drawn character by character
MaxDocLines == 4    \* most '\n'-separated pieces of a document text
MaxLevel == 5       \* deepest heading level of a level-only document
MaxHeadings == 3    \* most headings of a level-only document
MaxCalls == 1       \* most external add_child calls after a parse

SeqsUpTo(S, n) == UNION {[1..k -> S] : k \in 0..n}

\* a timestamp as it appears in a heading or on a planning line
TsSun == <<"<", "2", "0", "2", "3", "-", "0", "1", "-", "0", "1", " ",
           "S", "u", "n", ">">>

\* the tokens heading lines are built from: a recognised keyword, an
\* unrecognised word, a priority, title words (plain, with a colon inside,
\* in angle brackets), a tag list and a timestamp
HeadingTokens ==
    {TODO, <<"B", "L">>, <<"[", "#", "A", "]">>, <<"a">>, <<"f", ":", "b">>,
     <<"<", "b", ">">>, <<":", "t", ":">>, TsSun}

RawChars(f) == {HeadingChar(f), " ", "a"}

\* the lines handed to Node::from_heading_str
HeadingLines(f) ==
    {[k \in 1..n |-> HeadingChar(f)] \o <<" ">> \o Join(toks, <<" ">>) :
        n \in 1..MaxStars, toks \in SeqsUpTo(HeadingTokens, MaxTokens)}
    \cup SeqsUpTo(RawChars(f), MaxRawLen)

(***************************************************************************)
(* The heading round trip: Node::from_heading_str, one loop iteration per  *)
(* step, then Node::into_string of the node it returned                    *)
(***************************************************************************)
Idle == <<"idle">>

InitHeading ==
    /\ format \in Formats
    /\ heading \in HeadingLines(format)
    /\ hs = HeadingLocals(heading)
    /\ hpc = IF heading # <<>> /\ heading[1] = HeadingChar(format)
             THEN "loop" ELSE "returned"
    /\ hret = IF heading # <<>> /\ heading[1] = HeadingChar(format)
              THEN Idle ELSE Ok(None)
    /\ hout = Idle
    /\ text = Idle /\ ds = Idle /\ dpc = "idle" /\ dret = Idle /\ out = Idle
    /\ reparsed = Idle
    /\ call = Idle
    /\ stamp = Idle /\ tpc = "idle" /\ tret = Idle /\ tout = Idle
    /\ tback = Idle /\ tcall = Idle

\* one iteration of the loop of from_heading_str
HeadingIter ==
    /\ hpc = "loop" /\ hs.flow = "loop" /\ hs.i < Len(hs.chars)
    /\ hs' = HeadingLoopBody(hs, format)
    /\ UNCHANGED <<format, heading, hpc, hret, hout, dvars, call, tvars>>

\* the loop is left (end of line, `break`, `return None` or a panic) and
\* from_heading_str returns
HeadingReturn ==
    /\ hpc = "loop" /\ (hs.flow # "loop" \/ hs.i >= Len(hs.chars))
    /\ hret' = HeadingResult(hs)
    /\ hpc' = "returned"
    /\ UNCHANGED <<format, heading, hs, hout, dvars, call, tvars>>

\* Node::into_string on the node from_heading_str returned
HeadingPrint ==
    /\ hpc = "returned" /\ IsOk(hret) /\ IsSome(hret[2])
    /\ hout' = NodeIntoString(Unwrap(hret[2]), format)
    /\ hpc' = "printed"
    /\ UNCHANGED <<format, heading, hs, hret, dvars, call, tvars>>

NextHeading == HeadingIter \/ HeadingReturn \/ HeadingPrint

SpecHeading == InitHeading /\ [][NextHeading]_vars

(***************************************************************************)
(* The document round trip: Document::from_str, one iteration of its       *)
(* `while` loop per step, Document::into_string of the document it         *)
(* returned, and Document::from_str of that text                           *)
(***************************************************************************)
HeadingLine(n, f) == [k \in 1..n |-> HeadingChar(f)] \o <<" ", "a">>

PlanningLine ==
    <<"D", "E", "A", "D", "L", "I", "N", "E", ":", " ">> \o TsSun

\* the lines document texts are built from: headings of two levels, an
\* empty line, a line of text, a planning line, the drawer delimiters, a
\* property and the line that opens the document attributes
DocLines(f) ==
    {HeadingLine(1, f), HeadingLine(2, f), <<>>, <<"x">>, PlanningLine,
     PropertiesOpener(f), PropertiesCloser(f),
     IF f = "Org" THEN <<":", "K", ":", " ", "v">> ELSE <<"K", ":", " ", "v">>,
     IF f = "Org" THEN <<"#", "+", "t", "i", "t", "l", "e", ":", " ", "T">>
     ELSE <<"-", "-", "-">>}

\* the texts handed to Document::from_str, as their '\n'-separated pieces
DocTexts(f) == UNION {[1..k -> DocLines(f)] : k \in 1..MaxDocLines}

NoCall == [n |-> 0]

InitDoc ==
    /\ format \in Formats
    /\ text \in DocTexts(format)
    /\ ds = DocLocals(text, format)
    /\ dpc = "loop"
    /\ dret = Idle /\ out = Idle /\ reparsed = Idle
    /\ heading = Idle /\ hs = Idle /\ hpc = "idle" /\ hret = Idle
    /\ hout = Idle
    /\ call = NoCall
    /\ stamp = Idle /\ tpc = "idle" /\ tret = Idle /\ tout = Idle
    /\ tback = Idle /\ tcall = Idle

\* one iteration of the loop of Document::from_str
DocIter ==
    /\ dpc = "loop" /\ ds.flow = Ok("run") /\ ds.i < Len(ds.lines)
    /\ ds' = DocLoopBody(ds, format)
    /\ UNCHANGED <<format, hvars, text, dpc, dret, out, reparsed, call, tvars>>

\* the loop is left (no line remains, `?` returned an error, or a panic)
\* and Document::from_str returns
DocReturn ==
    /\ dpc = "loop" /\ (ds.flow # Ok("run") \/ ds.i >= Len(ds.lines))
    /\ dret' = DocResult(ds, format)
    /\ dpc' = "returned"
    /\ UNCHANGED <<format, hvars, text, ds, out, reparsed, call, tvars>>

\* Document::into_string on the document Document::from_str returned
DocPrint ==
    /\ dpc = "returned" /\ IsOk(dret)
    /\ \E swap \in BOOLEAN : out' = DocumentIntoString(dret[2], format, swap)
    /\ dpc' = "printed"
    /\ UNCHANGED <<format, hvars, text, ds, dret, reparsed, call, tvars>>

\* Document::from_str on the text Document::into_string wrote
DocReparse ==
    /\ dpc = "printed"
    /\ reparsed' = DocumentFromStr(out, format)
    /\ dpc' = "reparsed"
    /\ UNCHANGED <<format, hvars, text, ds, dret, out, call, tvars>>

NextDoc == DocIter \/ DocReturn \/ DocPrint \/ DocReparse

SpecDoc == InitDoc /\ [][NextDoc]_vars

(***************************************************************************)
(* Heading levels: Document::from_str on texts of headings of any levels,  *)
(* then Node::add_child called from outside on a node of the parsed tree   *)
(***************************************************************************)
LevelTexts(f) ==
    {[k \in 1..Len(levels) |-> HeadingLine(levels[k], f)] :
        levels \in SeqsUpTo(1..MaxLevel, MaxHeadings)}

InitTree ==
    /\ format \in Formats
    /\ text \in {IF t = <<>> THEN EmptyText ELSE t : t \in LevelTexts(format)}
    /\ ds = DocLocals(text, format)
    /\ dpc = "loop"
    /\ dret = Idle /\ out = Idle /\ reparsed = Idle
    /\ heading = Idle /\ hs = Idle /\ hpc = "idle" /\ hret = Idle
    /\ hout = Idle
    /\ call = NoCall
    /\ stamp = Idle /\ tpc = "idle" /\ tret = Idle /\ tout = Idle
    /\ tback = Idle /\ tcall = Idle

\* `parent.add_child(Node::new(level, "c", None))` for a node `parent` of the
\* parsed document
AddChildCall ==
    /\ dpc = "returned" /\ IsOk(dret) /\ call.n < MaxCalls
    /\ \E path \in Paths(dret[2].root), level \in 0..(MaxLevel + 1) :
          LET self == NodeAt(dret[2].root, path)
              child == NewNode(level, <<"c">>, None)
              r == AddChild(self, child)
          IN /\ dret' = Ok([dret[2] EXCEPT
                               !.root = SetAt(@, path, r[2])])
             /\ call' = [n |-> call.n + 1, self |-> self, child |-> child,
                         result |-> r[1], after |-> r[2]]
    /\ UNCHANGED <<format, hvars, text, ds, dpc, out, reparsed, tvars>>

NextTree == DocIter \/ DocReturn \/ AddChildCall

SpecTree == InitTree /\ [][NextTree]_vars

(***************************************************************************)
(* The timestamp round trip: Timestamp::from_str, Timestamp::into_string   *)
(* of the timestamp it returned, and Timestamp::from_str of that string    *)
(***************************************************************************)
MaxTsPieces == 3    \* most pieces between the date and the closing bracket

\* the ten characters after the opening bracket: dates that exist, a date
\* that does not, a month that is no number, and two `-`-separated parts
TsDates ==
    {<<"2", "0", "2", "3", "-", "0", "1", "-", "0", "1">>,
     <<"2", "0", "2", "4", "-", "0", "2", "-", "2", "9">>,
     <<"2", "0", "2", "3", "-", "0", "2", "-", "3", "0">>,
     <<"2", "0", "2", "3", "-", "0", "a", "-", "0", "1">>,
     <<"2", "0", "2", "3", "-", "0", "1", "0", "0", "1">>}

\* what may follow the date: day names (three letters, too long), times
\* (one, a same-day range, an hour that does not exist), repeaters (with a
\* count, with a count of zero, without one, with an unknown unit) and a character that belongs
\* to none of them
TsPieces ==
    {<<" ", "S", "u", "n">>,
     <<" ", "S", "u", "n", "d", "a", "y">>,
     <<" ", "9", ":", "0", "5">>,
     <<" ", "1", "0", ":", "3", "0", "-", "1", "1", ":", "0", "0">>,
     <<" ", "2", "5", ":", "0", "0">>,
     <<" ", "+", "1", "w">>,
     <<" ", "+", "0", "d">>,
     <<" ", "+", "w">>,
     <<" ", "+", "1", "x">>,
     <<" ", "?">>}

\* the bracket pairs
TsBrackets == {<<"<", ">">>, <<"[", "]">>, <<"<", "]">>}

\* complete timestamps, the two sides of a `--` range
TsSides ==
    {<<"<", "2", "0", "2", "3", "-", "0", "1", "-", "0", "1", " ", "S", "u", "n", ">">>,
     <<"<", "2", "0", "2", "3", "-", "0", "1", "-", "0", "1", " ", "S", "u", "n", " ", "1", "0", ":", "3", "0", ">">>,
     <<"<", "2", "0", "2", "3", "-", "0", "1", "-", "0", "2", " ", "M", "o", "n", " ", "9", ":", "0", "5", ">">>,
     <<"[", "2", "0", "2", "3", "-", "0", "1", "-", "0", "2", " ", "M", "o", "n", " ", "+", "2", "d", "]">>,
     <<"<", "2", "0", "2", "3", "-", "0", "1", "-", "0", "1", " ", "S", "u", "n", " ", "1", "0", ":", "3", "0", "-", "1", "1", ":", "0", "0", ">">>,
     <<"<", "2", "0", "2", "3", "-", "0", "1", "-", "0", "1", " ", "+", "w", ">">>}

\* the strings handed to Timestamp::from_str
TimestampTexts ==
    {<<b[1]>> \o d \o Flatten(ps) \o <<b[2]>> :
        b \in TsBrackets, d \in TsDates, ps \in SeqsUpTo(TsPieces, MaxTsPieces)}
    \cup {a \o <<"-", "-">> \o b : a, b \in TsSides}
    \cup {<<>>, <<"<", "a", ">">>, <<"<", "2", "0", "2", "3", "-", "0", "1", "-", "0", "1", " ", "é", ">">>}

NoTsCall == [op |-> "none"]

InitTimestamp ==
    /\ stamp \in TimestampTexts
    /\ tpc = "start"
    /\ tret = Idle /\ tout = Idle /\ tback = Idle /\ tcall = NoTsCall
    /\ format = "Org"
    /\ heading = Idle /\ hs = Idle /\ hpc = "idle" /\ hret = Idle
    /\ hout = Idle
    /\ text = Idle /\ ds = Idle /\ dpc = "idle" /\ dret = Idle /\ out = Idle
    /\ reparsed = Idle
    /\ call = Idle

\* Timestamp::from_str on the string
TsParse ==
    /\ tpc = "start"
    /\ tret' = TimestampFromStr(stamp)
    /\ tpc' = "parsed"
    /\ UNCHANGED <<format, hvars, dvars, call, stamp, tout, tback, tcall>>

\* Timestamp::into_string on the timestamp Timestamp::from_str returned
TsPrint ==
    /\ tpc = "parsed" /\ IsOk(tret)
    /\ tout' = TimestampIntoString(tret[2])
    /\ tpc' = "printed"
    /\ UNCHANGED <<format, hvars, dvars, call, stamp, tret, tback, tcall>>

\* Timestamp::from_str on the string Timestamp::into_string wrote
TsReparse ==
    /\ tpc = "printed"
    /\ tback' = TimestampFromStr(tout)
    /\ tpc' = "reparsed"
    /\ UNCHANGED <<format, hvars, dvars, call, stamp, tret, tout, tcall>>

NextTimestamp == TsParse \/ TsPrint \/ TsReparse

SpecTimestamp == InitTimestamp /\ [][NextTimestamp]_vars

(***************************************************************************)
(* Repeats: Timestamp::into_next_repeat replacing a timestamp by its next  *)
(* repeat, and one Timestamp::get_next_repeat or Timestamp::includes_date  *)
(* call on the timestamp reached                                           *)
(***************************************************************************)
MaxCount == 3       \* largest repeater count
MaxAfter == 190     \* latest date asked about, in days after the start
MaxAdvances == 2    \* most into_next_repeat calls in a row

\* start dates: the first, the 30th and the 31st of a month, and 29 February
RepeatStarts ==
    {<<2024, 1, 1>>, <<2024, 1, 2>>, <<2024, 1, 31>>, <<2024, 2, 29>>,
     <<2023, 12, 30>>}

RepeaterUnits == {"Day", "Week", "Month", "Year"}

\* the timestamps the calls are made on: with or without a start time, with
\* no end, an end on the start date or an end two days later, and with no
\* repeater or one of any unit and count
RepeatTimestamps ==
    {[start |-> [date |-> d, time |-> t],
      end |-> IF IsSome(e)
              THEN Some([date |-> AddDays(d, Unwrap(e)), time |-> None])
              ELSE None,
      repeater |-> r,
      active |-> TRUE] :
        d \in RepeatStarts,
        t \in {None, Some(<<9, 5>>)},
        e \in {None, Some(0), Some(2)},
        r \in {None} \cup {Some([count |-> c, unit |-> u]) :
                              c \in 0..MaxCount, u \in RepeaterUnits}}

\* the dates the calls ask about
AskedDates(start) == {AddDays(start, n) : n \in -2..MaxAfter}

InitRepeat ==
    /\ tret \in {Ok(ts) : ts \in RepeatTimestamps}
    /\ tpc = "ready"
    /\ tcall = [op |-> "none", n |-> 0]
    /\ stamp = Idle /\ tout = Idle /\ tback = Idle
    /\ format = "Org"
    /\ heading = Idle /\ hs = Idle /\ hpc = "idle" /\ hret = Idle
    /\ hout = Idle
    /\ text = Idle /\ ds = Idle /\ dpc = "idle" /\ dret = Idle /\ out = Idle
    /\ reparsed = Idle
    /\ call = Idle

\* `timestamp.get_next_repeat(after_date)`
GetNextRepeatCall ==
    /\ tpc = "ready"
    /\ \E after_date \in AskedDates(tret[2].start.date) :
          tcall' = [op |-> "get_next_repeat", n |-> tcall.n, self |-> tret[2],
                    arg |-> after_date,
                    result |-> GetNextRepeat(tret[2], after_date)]
    /\ tpc' = "asked"
    /\ UNCHANGED <<format, hvars, dvars, call, stamp, tret, tout, tback>>

\* `timestamp.includes_date(date)`
IncludesDateCall ==
    /\ tpc = "ready"
    /\ \E date \in AskedDates(tret[2].start.date) :
          tcall' = [op |-> "includes_date", n |-> tcall.n, self |-> tret[2],
                    arg |-> date,
                    result |-> IncludesDate(tret[2], date)]
    /\ tpc' = "asked"
    /\ UNCHANGED <<format, hvars, dvars, call, stamp, tret, tout, tback>>

\* `timestamp = timestamp.into_next_repeat()`: the timestamp is replaced by
\* the one inside Ok or Err, and a panic ends the run
IntoNextRepeatCall ==
    /\ tpc = "ready" /\ tcall.n < MaxAdvances
    /\ \E result \in {IntoNextRepeat(tret[2])} :
          /\ tcall' = [op |-> "into_next_repeat", n |-> tcall.n + 1,
                       self |-> tret[2], result |-> result]
          /\ tret' = IF IsOk(result) THEN Ok(result[2][2]) ELSE tret
          /\ tpc' = IF IsOk(result) THEN "ready" ELSE "panicked"
    /\ UNCHANGED <<format, hvars, dvars, call, stamp, tout, tback>>

NextRepeat == GetNextRepeatCall \/ IncludesDateCall \/ IntoNextRepeatCall

SpecRepeat == InitRepeat /\ [][NextRepeat]_vars

(***************************************************************************)
(* Writing attributes: a document with an attribute store, its root title  *)
(* and tags changed from outside, written by Document::into_string in a    *)
(* format; the written text read back in that format and written in the    *)
(* other one                                                               *)
(***************************************************************************)
MaxAttrs == 3       \* most entries of an attribute store
MaxEdits == 2       \* most changes to the root before the document is written

\* the entries of an Org map and of a YAML mapping or TOML table
OrgEntries ==
    {<<TITLE, <<"T">>>>, <<AUTHOR, <<"U">>>>, <<TAGS, <<"x">>>>,
     <<FILETAGS, <<":", "a", ":">>>>, <<FILETAGS, <<":", "a", ":", "b", ":">>>>}
MappingEntries ==
    {<<TITLE, Str(<<"T">>)>>, <<AUTHOR, Str(<<"U">>)>>,
     <<FILETAGS, Str(<<"x">>)>>,
     <<TAGS, Sequence(<<<<"a">>>>)>>, <<TAGS, Sequence(<<<<"a">>, <<"b">>>>)>>}

\* the maps of distinct keys over a set of entries
AttrMaps(entries) ==
    {m \in SeqsUpTo(entries, MaxAttrs) :
        \A j, k \in 1..Len(m) : m[j][1] = m[k][1] => j = k}

AttributeStores ==
    {<<"None">>}
    \cup {<<"Org", m>> : m \in AttrMaps(OrgEntries)}
    \cup {<<v, m>> : v \in {"MarkdownYaml", "MarkdownToml"},
                     m \in AttrMaps(MappingEntries)}

RootTitles == {<<>>, <<"T">>, <<"V">>}
RootTags == {<<>>, <<<<"a">>>>, <<<<"a">>, <<"b">>>>, <<<<"b">>>>}

OtherFormat(f) == IF f = "Org" THEN "Markdown" ELSE "Org"

\* a document as Document::from_str leaves it: the root's title and tags
\* are those of the attribute store
InitWrite ==
    /\ format \in Formats
    /\ \E attributes \in AttributeStores :
          dret = Ok([root |-> [DefaultNode EXCEPT
                                  !.title = AttributesTitle(attributes),
                                  !.tags = AttributesTags(attributes)],
                     attributes |-> attributes])
    /\ dpc = "returned"
    /\ text = Idle /\ ds = Idle /\ out = Idle /\ reparsed = Idle
    /\ heading = Idle /\ hs = Idle /\ hpc = "idle" /\ hret = Idle
    /\ hout = Idle
    /\ call = NoCall
    /\ stamp = Idle /\ tpc = "idle" /\ tret = Idle /\ tout = Idle
    /\ tback = Idle /\ tcall = Idle

\* document.root.title = title, from outside
SetRootTitle ==
    /\ dpc = "returned" /\ call.n < MaxEdits
    /\ \E title \in RootTitles :
          dret' = Ok([dret[2] EXCEPT !.root.title = title])
    /\ call' = [n |-> call.n + 1]
    /\ UNCHANGED <<format, hvars, text, ds, dpc, out, reparsed, tvars>>

\* document.root.tags = tags, from outside
SetRootTags ==
    /\ dpc = "returned" /\ call.n < MaxEdits
    /\ \E tags \in RootTags :
          dret' = Ok([dret[2] EXCEPT !.root.tags = tags])
    /\ call' = [n |-> call.n + 1]
    /\ UNCHANGED <<format, hvars, text, ds, dpc, out, reparsed, tvars>>

\* Document::from_str on the written text in the format it was written in,
\* then Document::into_string in the other format
DocConvert ==
    /\ dpc = "printed" /\ out[1] # <<"+", "+", "+">>
    /\ \E swap \in BOOLEAN, r \in {DocumentFromStr(out, format)} :
          reparsed' = IF IsOk(r)
                      THEN Ok(DocumentIntoString(r[2], OtherFormat(format), swap))
                      ELSE r
    /\ dpc' = "converted"
    /\ UNCHANGED <<format, hvars, text, ds, dret, out, call, tvars>>

NextWrite == SetRootTitle \/ SetRootTags \/ DocPrint \/ DocConvert

SpecWrite == InitWrite /\ [][NextWrite]_vars

(***************************************************************************)
(* Refiling (orgish-tools/src/refile.rs) and Node::unchecked_set_level     *)
(***************************************************************************)
\* `as i8` of a u8, an i8 result wrapped, `as u8` of an i8
AsI8(n) == IF n >= 128 THEN n - 256 ELSE n
WrapI8(x) == ((x + 128) % 256) - 128
AsU8(x) == (x + 256) % 256
I8 == -128..127

\* the inner set_level of Node::unchecked_set_level: Ok(node) or Panic.
\* An i8 subtraction that overflows panics in a build with overflow checks
\* and wraps in one without.
RECURSIVE SetLevel(_, _, _)
SetLevelChildren(node, level, children) ==
    IF \E k \in 1..Len(children) : ~IsOk(children[k])
    THEN Panic("attempt to subtract with overflow")
    ELSE Ok([node EXCEPT !.level = level,
                         !.children = [k \in 1..Len(children) |->
                                          children[k][2]]])
SetLevel(node, diff, checked) ==
    IF checked /\ (AsI8(node.level) - diff) \notin I8
    THEN Panic("attempt to subtract with overflow")
    ELSE SetLevelChildren(node, AsU8(WrapI8(AsI8(node.level) - diff)),
                          [k \in 1..Len(node.children) |->
                              SetLevel(node.children[k], diff, checked)])

\* Node::unchecked_set_level
UncheckedSetLevel(self, level, checked) ==
    IF checked /\ (AsI8(self.level) - AsI8(level)) \notin I8
    THEN Panic("attempt to subtract with overflow")
    ELSE SetLevel(self, WrapI8(AsI8(self.level) - AsI8(level)), checked)

\* find_heading_path: the path of child positions to the node the titles
\* lead to, following the first child of the wanted title at each step
RECURSIVE FindHeadingPath(_, _, _)
FindHeadingPath(root, path, heading_path) ==
    LET node == NodeAt(root, path)
        hits == {k \in 1..Len(node.children) :
                    node.children[k].title = Head(heading_path)}
    IN IF heading_path = <<>> THEN Some(path)
       ELSE IF hits = {} THEN None
       ELSE FindHeadingPath(root,
                Append(path, CHOOSE k \in hits : \A j \in hits : k <= j),
                Tail(heading_path))

\* the loops of refile over the nodes: [result, root afterwards]
RECURSIVE RefileLoop(_, _, _, _, _)
RefileAdd(nodes, root, target, set, added, refile_level, checked) ==
    IF ~IsOk(set) THEN [result |-> set, root |-> root]
    ELSE IF ~IsOk(added[1])
    THEN [result |-> Panic("add_child(node).unwrap()"), root |-> root]
    ELSE RefileLoop(Tail(nodes), SetAt(root, target, added[2]), target,
                    refile_level, checked)
RefileLoop(nodes, root, target, refile_level, checked) ==
    IF nodes = <<>> THEN [result |-> Ok(Some(<<>>)), root |-> root]
    ELSE CHOOSE r \in
            {RefileAdd(nodes, root, target, set,
                       IF IsOk(set) THEN AddChild(NodeAt(root, target), set[2])
                       ELSE <<set>>,
                       refile_level, checked) :
                set \in {UncheckedSetLevel(Head(nodes), refile_level, checked)}} :
            TRUE

\* refile on the root of target_doc: [result, root afterwards]; the result
\* is Ok(Some(())), Ok(None) or a panic.  target.level() + 1 on level 255
\* panics in a build with overflow checks and is 0 in one without.
RefileUnder(nodes, root, found, checked) ==
    IF ~IsSome(found) THEN [result |-> Ok(None), root |-> root]
    ELSE IF NodeAt(root, Unwrap(found)).level = U8Max /\ checked
    THEN [result |-> Panic("attempt to add with overflow"), root |-> root]
    ELSE RefileLoop(nodes, root, Unwrap(found),
                    (NodeAt(root, Unwrap(found)).level + 1) % (U8Max + 1),
                    checked)
Refile(nodes, target_heading, root, checked) ==
    IF IsSome(target_heading)
    THEN RefileUnder(nodes, root,
             FindHeadingPath(root, <<>>,
                             Split(Unwrap(target_heading), <<":", ":">>)),
             checked)
    ELSE RefileLoop(nodes, root, <<>>, 1, checked)

(***************************************************************************)
(* Refiling: refile called once on a document and a fragment               *)
(***************************************************************************)
MaxFragment == 2    \* most nodes of a refiled fragment
MaxChildren == 2    \* most children of the root of the target document

RefileTitles == {<<"a">>, <<"b">>}
RefileLevels == {1, 2, 254, 255}

\* a heading without children, and the headings with at most one child
Leaf(level, title) == NewNode(level, title, None)
RefileNodes ==
    {Leaf(l, t) : l \in RefileLevels, t \in RefileTitles}
    \cup {[Leaf(l[1], t[1]) EXCEPT !.children = <<Leaf(l[2], t[2])>>] :
             l \in {m \in RefileLevels \X RefileLevels : m[1] < m[2]},
             t \in RefileTitles \X RefileTitles}

\* the nodes a fragment is made of
FragmentNodes ==
    {Leaf(1, <<"n">>), Leaf(3, <<"n">>),
     [Leaf(1, <<"n">>) EXCEPT !.children = <<Leaf(2, <<"m">>)>>],
     [Leaf(3, <<"n">>) EXCEPT !.children = <<Leaf(5, <<"m">>)>>]}

\* the target headings: none, one title, two titles, a title not there
TargetHeadings ==
    {None, Some(<<"a">>), Some(<<"b">>), Some(<<"a", ":", ":", "b">>),
     Some(<<"a", ":", ":", "a">>), Some(<<"c">>)}

InitRefile ==
    /\ format = "Org"
    /\ \E children \in SeqsUpTo(RefileNodes, MaxChildren) :
          dret = Ok([root |-> [DefaultNode EXCEPT !.children = children],
                     attributes |-> <<"None">>])
    /\ dpc = "returned"
    /\ text = Idle /\ ds = Idle /\ out = Idle /\ reparsed = Idle
    /\ heading = Idle /\ hs = Idle /\ hpc = "idle" /\ hret = Idle
    /\ hout = Idle
    /\ call = NoCall
    /\ stamp = Idle /\ tpc = "idle" /\ tret = Idle /\ tout = Idle
    /\ tback = Idle /\ tcall = Idle

\* refile(nodes, target_heading, &mut target_doc)
RefileCall ==
    /\ dpc = "returned" /\ call.n = 0
    /\ \E nodes \in SeqsUpTo(FragmentNodes, MaxFragment),
          target_heading \in TargetHeadings, checked \in BOOLEAN :
          \E r \in {Refile(nodes, target_heading, dret[2].root, checked)} :
             /\ dret' = Ok([dret[2] EXCEPT !.root = r.root])
             /\ call' = [n |-> 1, op |-> "refile", nodes |-> nodes,
                         target_heading |-> target_heading,
                         before |-> dret[2].root, result |-> r.result]
             /\ dpc' = IF IsOk(r.result) THEN "returned" ELSE "panicked"
    /\ UNCHANGED <<format, hvars, text, ds, out, reparsed, tvars>>

NextRefile == RefileCall \/ DocPrint

SpecRefile == InitRefile /\ [][NextRefile]_vars

(***************************************************************************)
(* Marking done (orgish-tools/src/mark_done.rs).  A CompletedNode is       *)
(* <<"Done", node>> or <<"Repeating", completed, repeating>>.              *)
(***************************************************************************)
LAST_REPEAT == <<"L", "A", "S", "T", "_", "R", "E", "P", "E", "A", "T">>

\* `.map(|ts| ts.into_next_repeat()).filter_map(|ts_opt| ts_opt.ok())` on
\* the inline timestamps: Ok(the advanced repeating ones) or the panic of
\* into_next_repeat
RECURSIVE NextRepeats(_)
NextRepeatsCons(r, rest) ==
    IF ~IsOk(r) THEN r
    ELSE IF ~IsOk(rest) THEN rest
    ELSE IF IsOk(r[2]) THEN Ok(<<r[2][2]>> \o rest[2])
    ELSE rest
NextRepeats(timestamps) ==
    IF timestamps = <<>> THEN Ok(<<>>)
    ELSE NextRepeatsCons(IntoNextRepeat(Head(timestamps)),
                         NextRepeats(Tail(timestamps)))

\* `.map(|ts| ts.into_next_repeat().ok()).flatten()` on a planning slot
NextRepeatIn(r) ==
    IF ~IsOk(r) THEN r
    ELSE IF IsOk(r[2]) THEN Ok(Some(r[2][2]))
    ELSE Ok(None)
NextRepeatOpt(slot) ==
    IF IsSome(slot) THEN NextRepeatIn(IntoNextRepeat(Unwrap(slot)))
    ELSE Ok(None)

\* the body of the loop of mark_nodes_done once the timestamps have been
\* advanced: the CompletedNode of one node, or the panic
CompletedNode(node, timestamps, deadline, scheduled, closed, new_keyword_repeating, new_keyword_not_repeating, completion_time) ==
    IF ~IsOk(timestamps) THEN timestamps
    ELSE IF ~IsOk(deadline) THEN deadline
    ELSE IF ~IsOk(scheduled) THEN scheduled
    ELSE IF ~IsOk(closed) THEN closed
    ELSE IF timestamps[2] = <<>> /\ ~IsSome(deadline[2])
            /\ ~IsSome(scheduled[2]) /\ ~IsSome(closed[2])
    THEN Ok(<<"Done",
              [node EXCEPT !.keyword = Some(new_keyword_not_repeating)]>>)
    ELSE Ok(<<"Repeating",
              [node EXCEPT !.keyword = Some(new_keyword_not_repeating)],
              [node EXCEPT
                  !.keyword = Some(new_keyword_repeating),
                  !.timestamps = timestamps[2],
                  !.planning = [deadline |-> deadline[2],
                                scheduled |-> scheduled[2],
                                closed |-> closed[2]],
                  !.properties.inner =
                      IF IsSome(completion_time)
                      THEN MapInsert(@, LAST_REPEAT,
                               TimestampIntoString(
                                   [start |-> Unwrap(completion_time),
                                    end |-> None, repeater |-> None,
                                    active |-> FALSE]))
                      ELSE @]>>)

\* mark_nodes_done: Ok(the completed nodes) or the panic
RECURSIVE MarkNodesDone(_, _, _, _)
MarkNodesDoneCons(first, rest) ==
    IF ~IsOk(first) THEN first
    ELSE IF ~IsOk(rest) THEN rest
    ELSE Ok(<<first[2]>> \o rest[2])
MarkNodesDone(nodes, new_keyword_repeating, new_keyword_not_repeating, completion_time) ==
    IF nodes = <<>> THEN Ok(<<>>)
    ELSE MarkNodesDoneCons(
             CompletedNode(Head(nodes),
                           NextRepeats(Head(nodes).timestamps),
                           NextRepeatOpt(Head(nodes).planning.deadline),
                           NextRepeatOpt(Head(nodes).planning.scheduled),
                           NextRepeatOpt(Head(nodes).planning.closed),
                           new_keyword_repeating, new_keyword_not_repeating,
                           completion_time),
             MarkNodesDone(Tail(nodes), new_keyword_repeating,
                           new_keyword_not_repeating, completion_time))

(***************************************************************************)
(* Marking done: mark_nodes_done called once on a fragment                 *)
(***************************************************************************)
MaxDone == 2        \* most nodes handed to mark_nodes_done

\* a timestamp on a date with an optional repeater
PlainTimestamp(date, repeater) ==
    [start |-> [date |-> date, time |-> None], end |-> None,
     repeater |-> repeater, active |-> TRUE]
TsOnce == PlainTimestamp(<<2024, 1, 1>>, None)
TsWeekly == PlainTimestamp(<<2024, 1, 1>>, Some([count |-> 1, unit |-> "Week"]))
TsMonthly == PlainTimestamp(<<2024, 1, 2>>, Some([count |-> 2, unit |-> "Month"]))
TsMonthEnd == PlainTimestamp(<<2024, 1, 31>>, Some([count |-> 1, unit |-> "Month"]))
TsLeapDay == PlainTimestamp(<<2024, 2, 29>>, Some([count |-> 1, unit |-> "Year"]))

\* the nodes handed to mark_nodes_done
DoneNodes ==
    {[Leaf(1, <<"a">>) EXCEPT
         !.keyword = Some(<<"Todo">>),
         !.timestamps = timestamps,
         !.planning = [deadline |-> deadline, scheduled |-> scheduled,
                       closed |-> closed],
         !.children = children] :
        timestamps \in {<<>>, <<TsOnce>>, <<TsWeekly>>, <<TsOnce, TsWeekly>>,
                        <<TsMonthly, TsOnce>>, <<TsMonthEnd>>},
        deadline \in {None, Some(TsOnce), Some(TsWeekly), Some(TsLeapDay)},
        scheduled \in {None, Some(TsMonthly)},
        closed \in {None, Some(TsOnce)},
        children \in {<<>>, <<[Leaf(2, <<"b">>) EXCEPT
                                  !.timestamps = <<TsWeekly>>]>>}}

\* the keywords given for repeating and non-repeating nodes
KeywordRepeating == <<"Todo">>
KeywordNotRepeating == KeywordOther(<<"D", "O", "N", "E">>)

InitDone ==
    /\ format = "Org"
    /\ call \in {[n |-> 0, nodes |-> nodes, completion_time |-> time] :
                    nodes \in SeqsUpTo(DoneNodes, MaxDone),
                    time \in {None, Some([date |-> <<2024, 3, 1>>,
                                          time |-> Some(<<9, 5>>)])}}
    /\ dpc = "idle"
    /\ text = Idle /\ ds = Idle /\ dret = Idle /\ out = Idle
    /\ reparsed = Idle
    /\ heading = Idle /\ hs = Idle /\ hpc = "idle" /\ hret = Idle
    /\ hout = Idle
    /\ stamp = Idle /\ tpc = "idle" /\ tret = Idle /\ tout = Idle
    /\ tback = Idle /\ tcall = Idle

\* mark_nodes_done(nodes, TODO, DONE, completion_time)
MarkDoneCall ==
    /\ call.n = 0
    /\ call' = [n |-> 1, op |-> "mark_nodes_done", nodes |-> call.nodes,
                completion_time |-> call.completion_time,
                result |-> MarkNodesDone(call.nodes, KeywordRepeating,
                                         KeywordNotRepeating,
                                         call.completion_time)]
    /\ UNCHANGED <<format, hvars, dvars, tvars>>

NextDone == MarkDoneCall

SpecDone == InitDone /\ [][NextDone]_vars

(***************************************************************************)
(* Properties of heading levels, checked under SpecTree                    *)
(***************************************************************************)
\* the number of marker characters a line begins with
RECURSIVE LeadingMarkers(_, _)
LeadingMarkers(line, f) ==
    IF line # <<>> /\ line[1] = HeadingChar(f)
    THEN 1 + LeadingMarkers(Tail(line), f)
    ELSE 0

\* the level of the k-th heading of the text being parsed
TextLevel(k) == LeadingMarkers(ds.lines[k], format)

\* C2: Document::from_str never panics on a text of headings of arbitrary
\* levels in arbitrary order: it returns Ok(document) or Err(ParseError).
C2_NeverPanics == dpc = "returned" => (IsOk(dret) \/ IsErr(dret))

\* every child of every node of the tree has a level above its parent's
LevelMonotone(root) ==
    \A p \in Paths(root) :
        \A k \in 1..Len(NodeAt(root, p).children) :
            NodeAt(root, p).children[k].level > NodeAt(root, p).level

\* C3: in every document Document::from_str returns Ok, and after every
\* further Node::add_child call on it, accepted or rejected, every child
\* has a level strictly greater than its parent's.
C3_LevelMonotone ==
    (dpc = "returned" /\ IsOk(dret)) => LevelMonotone(dret[2].root)

\* an add_child call was accepted on a heading of a parsed document
C3_Witness ==
    /\ dpc = "returned" /\ IsOk(dret)
    /\ call.n > 0 /\ IsOk(call.result) /\ call.self.level > 0

\* some heading lies more than one level below the heading (or the root)
\* it follows
HasGap ==
    \E k \in 1..Len(ds.lines) :
        TextLevel(k) > (IF k = 1 THEN 0 ELSE TextLevel(k - 1)) + 1

\* C5: a document in which a heading's level exceeds the level of the
\* heading (or root) it nests under by more than one is parsed without
\* error, whatever headings follow it.
C5_GapsAccepted == (dpc = "returned" /\ HasGap) => IsOk(dret)

\* C6: Node::add_child appends the child as the last child and returns Ok
\* when child.level > self.level; otherwise it returns
\* Err(InvalidChildLevel) with the parent's and the child's levels and
\* leaves the children unchanged; it never panics.
C6_AddChild ==
    call.n > 0 =>
        IF call.child.level > call.self.level
        THEN /\ call.result = Ok(<<>>)
             /\ call.after =
                    [call.self EXCEPT !.children = Append(@, call.child)]
        ELSE /\ call.result =
                    Err([kind |-> "InvalidChildLevel",
                         parent_level |-> call.self.level,
                         bad_child_level |-> call.child.level])
             /\ call.after = call.self

\* a call was rejected on a node that has children, below the node's level
C6_Witness ==
    /\ call.n > 0 /\ IsErr(call.result)
    /\ call.self.children # <<>> /\ call.child.level < call.self.level

(***************************************************************************)
(* Properties of the heading tokenizer, checked under SpecHeading          *)
(***************************************************************************)
\* the space-separated pieces of the heading line: the marker run first
Words == Split(heading, <<" ">>)

\* the line is a marker run followed by one or more tokens, with exactly
\* one space before each token and nothing after the last
SingleSpaced ==
    /\ Len(Words) >= 2
    /\ \A k \in 1..Len(Words) : Words[k] # <<>>
    /\ LeadingMarkers(heading, format) = Len(Words[1])

\* a token that opens neither a tag list nor a timestamp
Plain(token) == \A k \in 1..Len(token) : token[k] \notin {":", "<"}

\* the tokens from the k-th piece on, joined by single spaces
Rest(k) == Join(SubSeq(Words, k, Len(Words)), <<" ">>)

HeadingReturned == hpc \in {"returned", "printed"}

\* Node::from_heading_str returned Some(node) with this keyword, priority
\* and title
Parsed(keyword, priority, title) ==
    /\ IsOk(hret) /\ IsSome(hret[2])
    /\ Unwrap(hret[2]).keyword = keyword
    /\ Unwrap(hret[2]).priority = priority
    /\ Unwrap(hret[2]).title = title

\* C7: for every single-spaced heading line that Node::from_heading_str
\* recognises, Node::into_string of the parsed node in the same format is
\* the line itself, except that timestamps and tags move to the end.
\* Stated for the lines without timestamps and tags, which must come back
\* unchanged.
C7_HeadingRoundTrip ==
    (hpc = "printed" /\ SingleSpaced
        /\ \A k \in 2..Len(Words) : Plain(Words[k]))
    => hout = <<heading>>

\* C8: for a first token X that is no recognised keyword and no priority,
\* `* X [#P] rest` parses with keyword other(X), priority P and title
\* rest, and `* X rest` (second token no priority) parses with keyword
\* None, priority None and title `X rest`; a recognised keyword in first
\* position is the keyword whether or not a priority follows.
C8_Disambiguation ==
    (HeadingReturned /\ SingleSpaced /\ Len(Words) >= 3
        /\ \A k \in 2..Len(Words) : Plain(Words[k]))
    => IF IsSome(KeywordFromStr(Words[2]))
       THEN /\ IsOk(hret) /\ IsSome(hret[2])
            /\ Unwrap(hret[2]).keyword = KeywordFromStr(Words[2])
       ELSE IF IsSome(ParsePriority(Words[2])) THEN TRUE
       ELSE IF IsSome(ParsePriority(Words[3]))
       THEN Parsed(Some(KeywordOther(Words[2])), ParsePriority(Words[3]),
                   Rest(4))
       ELSE Parsed(None, None, Rest(2))

\* C9: a heading of the marker run, a space and exactly one token is
\* keyword-only (title empty) when the token is a recognised keyword,
\* priority-only (title empty, keyword None) when it has the form [#P],
\* and title-only (title the token, keyword and priority None) otherwise;
\* a heading of a keyword and a priority with nothing after has an empty
\* title.
C9_OneToken ==
    (HeadingReturned /\ SingleSpaced)
    => /\ Len(Words) = 2 =>
            IF IsSome(KeywordFromStr(Words[2]))
            THEN Parsed(KeywordFromStr(Words[2]), None, <<>>)
            ELSE IF IsSome(ParsePriority(Words[2]))
            THEN Parsed(None, ParsePriority(Words[2]), <<>>)
            ELSE Parsed(None, None, Words[2])
       /\ (Len(Words) = 3 /\ IsSome(KeywordFromStr(Words[2]))
                /\ IsSome(ParsePriority(Words[3])))
            => Parsed(KeywordFromStr(Words[2]), ParsePriority(Words[3]), <<>>)

\* the line begins with one or more marker characters followed by a space
BeginsWithMarkersAndSpace ==
    /\ LeadingMarkers(heading, format) >= 1
    /\ Len(heading) > LeadingMarkers(heading, format)
    /\ heading[LeadingMarkers(heading, format) + 1] = " "

\* the line is nothing but one or more marker characters
OnlyMarkers ==
    /\ LeadingMarkers(heading, format) >= 1
    /\ Len(heading) = LeadingMarkers(heading, format)

\* a returned node has the marker count as its level and no children
LevelIsMarkerCount ==
    (IsOk(hret) /\ IsSome(hret[2]))
    => /\ Unwrap(hret[2]).level = LeadingMarkers(heading, format)
       /\ Unwrap(hret[2]).children = <<>>

PlainText ==
    /\ \A k \in 1..Len(text) :
           ~StartsWith(text[k], <<"#", "+">>) /\ ~Fence(Trim(text[k]))
    /\ text[1] # <<>>
    /\ text[Len(text)] # <<>>

\* C1: for every text that Document::from_str parses successfully in a
\* format, Document::into_string in that format gives the text back
\* exactly, except for the documented normalizations (tags moved to the
\* end of the title, same-day time ranges collapsed, attribute lines
\* reordered or repositioned).  Stated for the texts none of the
\* normalizations applies to.
C1_DocumentRoundTrip ==
    (dpc \in {"printed", "reparsed"} /\ PlainText) => out = text

\* C4: a heading with no body line (body None) and a heading with exactly
\* one blank body line (body Some("")) serialize to texts that re-parse to
\* the same body value.
C4_BodyKept ==
    dpc = "reparsed"
    => \A p \in Paths(dret[2].root) \ {<<>>} :
           NodeAt(dret[2].root, p).body \in {None, Some(EmptyText)}
           => /\ IsOk(reparsed)
              /\ p \in Paths(reparsed[2].root)
              /\ NodeAt(reparsed[2].root, p).body
                     = NodeAt(dret[2].root, p).body

(***************************************************************************)
(* Properties of timestamp parsing and printing, checked under             *)
(* SpecTimestamp                                                           *)
(***************************************************************************)
\* C11: for every string, Timestamp::from_str returns Ok or a
\* TimestampParseError, never a panic; a repeater without a count, such as
\* `+w`, is among the malformed timestamps that get the typed error.
C11_TypedError == tpc # "start" => (IsOk(tret) \/ IsErr(tret))

\* C12: for every string Timestamp::from_str accepts, the text
\* Timestamp::into_string writes is accepted too and gives a timestamp with
\* the same start date and time, end date and time, repeater and active
\* flag.
C12_NoLoss == tpc = "reparsed" => (IsOk(tback) /\ tback[2] = tret[2])

(***************************************************************************)
(* Properties of repeats, checked under SpecRepeat                         *)
(***************************************************************************)
\* the last call was get_next_repeat on a timestamp with a repeater of one
\* of these units
AskedNext(units) ==
    /\ tcall.op = "get_next_repeat"
    /\ IsSome(tcall.self.repeater)
    /\ Unwrap(tcall.self.repeater).unit \in units

\* the period in days of a day or week repeater
PeriodDays(r) == IF r.unit = "Day" THEN r.count ELSE 7 * r.count

\* C13: for a timestamp with start date S and a repeater of period P days
\* (count for days, 7 * count for weeks), get_next_repeat(after) returns S
\* when after < S, and otherwise the smallest date S + k * P (k >= 0) that
\* is >= after.
C13_NextRepeatDays ==
    AskedNext({"Day", "Week"})
    => LET S == tcall.self.start.date
           P == PeriodDays(Unwrap(tcall.self.repeater))
           diff == NumDays(tcall.arg, S)
       IN IF diff < 0 THEN tcall.result = Ok(Some(S))
          ELSE \A k \in 0..MaxAfter :
                   (k * P >= diff /\ (k = 0 \/ (k - 1) * P < diff))
                   => tcall.result = Ok(Some(AddDays(S, k * P)))

\* the date with the start's day-of-month in the month lying j months
\* after the start's, if that day exists
MonthRepeat(S, j) ==
    FromYmdOpt((MonthsOf(S) + j) \div 12, ((MonthsOf(S) + j) % 12) + 1, S[3])

\* the first repeat of a month or year repeater on or after a date: the
\* first existing MonthRepeat(S, j), j = from, from + step, ..., that is not
\* before `after`; None if there is none up to `last`
RECURSIVE FirstRepeat(_, _, _, _, _)
FirstRepeat(S, after, from, step, last) ==
    IF from > last THEN None
    ELSE IF IsSome(MonthRepeat(S, from))
            /\ ~DateLt(Unwrap(MonthRepeat(S, from)), after)
    THEN MonthRepeat(S, from)
    ELSE IF step = 0 THEN None
    ELSE FirstRepeat(S, after, from + step, step, last)

\* the period in months of a month or year repeater
PeriodMonths(r) == IF r.unit = "Month" THEN r.count ELSE 12 * r.count

\* the latest month looked at, in months after the start's
LastMonth == 120

\* C14: for every start date S (day-of-month 29, 30, 31 and 29 February
\* included) and every after >= S, get_next_repeat(after) of a month or
\* year repeater returns, without panicking, the earliest date >= after
\* that has S's day-of-month (month and day) in a month (year) lying a
\* multiple of count units after S's; a repeat whose day does not exist is
\* skipped.  Stated for counts of at least 1.
C14_NextRepeatMonths ==
    (AskedNext({"Month", "Year"})
        /\ Unwrap(tcall.self.repeater).count >= 1
        /\ ~DateLt(tcall.arg, tcall.self.start.date))
    => LET first == FirstRepeat(tcall.self.start.date, tcall.arg, 0,
                                PeriodMonths(Unwrap(tcall.self.repeater)),
                                LastMonth)
       IN /\ IsOk(tcall.result)
          /\ IsSome(first) => tcall.result = Ok(first)

\* C15: a timestamp with start S, no end and a repeater of n months
\* (years) includes a date d exactly when d has S's day-of-month (month and
\* day) and lies a non-negative multiple of n months (years) after S.
\* Stated for counts of at least 1.
C15_IncludesMonths ==
    (/\ tcall.op = "includes_date"
     /\ IsSome(tcall.self.repeater)
     /\ Unwrap(tcall.self.repeater).unit \in {"Month", "Year"}
     /\ Unwrap(tcall.self.repeater).count >= 1
     /\ ~IsSome(tcall.self.end))
    => tcall.result =
           Ok(/\ tcall.arg[3] = tcall.self.start.date[3]
              /\ MonthsOf(tcall.arg) >= MonthsOf(tcall.self.start.date)
              /\ (MonthsOf(tcall.arg) - MonthsOf(tcall.self.start.date))
                     % PeriodMonths(Unwrap(tcall.self.repeater)) = 0)

\* the first repeat strictly after the start date S of a repeater r
FirstRepeatAfterStart(S, r) ==
    IF r.unit \in {"Day", "Week"}
    THEN IF PeriodDays(r) = 0 THEN None ELSE Some(AddDays(S, PeriodDays(r)))
    ELSE FirstRepeat(S, AddDays(S, 1), PeriodMonths(r), PeriodMonths(r),
                     LastMonth)

\* t is s advanced to the date `next`: the end keeps its distance in days
\* from the start, and times, repeater and active flag are those of s
AdvancedTo(s, t, next) ==
    /\ t.start = [date |-> next, time |-> s.start.time]
    /\ DateLt(s.start.date, t.start.date)
    /\ IsSome(t.end) = IsSome(s.end)
    /\ IsSome(s.end) =>
          /\ Unwrap(t.end).time = Unwrap(s.end).time
          /\ NumDays(Unwrap(t.end).date, t.start.date)
                = NumDays(Unwrap(s.end).date, s.start.date)
    /\ t.repeater = s.repeater
    /\ t.active = s.active

\* C16: for a timestamp with a repeater, into_next_repeat returns Ok(t')
\* where t'.start.date is the first repeat strictly after the original start
\* date, the end keeps its distance in days from the start, and the start
\* time, end time, repeater and active flag are unchanged; so the start
\* dates of repeated applications strictly increase.  Stated for counts of
\* at least 1.
C16_Advance ==
    (/\ tcall.op = "into_next_repeat"
     /\ IsSome(tcall.self.repeater)
     /\ Unwrap(tcall.self.repeater).count >= 1)
    => /\ tcall.result[1] = "Ok"
       /\ tcall.result[2][1] = "Ok"
       /\ IsSome(FirstRepeatAfterStart(tcall.self.start.date,
                                       Unwrap(tcall.self.repeater)))
       /\ AdvancedTo(tcall.self, tcall.result[2][2],
                     Unwrap(FirstRepeatAfterStart(tcall.self.start.date,
                                       Unwrap(tcall.self.repeater))))

(***************************************************************************)
(* Properties of planning lines, checked under SpecDoc                     *)
(***************************************************************************)
\* the text has, after leading heading lines only, a heading directly
\* followed by two DEADLINE lines
DuplicatePlanning ==
    \E i \in 1..(Len(text) - 2) :
        /\ \A k \in 1..i : text[k] \in {HeadingLine(1, format),
                                         HeadingLine(2, format)}
        /\ text[i + 1] = PlanningLine
        /\ text[i + 2] = PlanningLine

\* C17: if the planning lines directly under one heading contain the same
\* keyword twice, Document::from_str returns the error PlanningRepeat and
\* no document.
C17_PlanningRepeat ==
    (dpc # "loop" /\ DuplicatePlanning)
    => (IsErr(dret) /\ dret[2].kind = "PlanningRepeat")

(***************************************************************************)
(* Properties of attribute writing, checked under SpecWrite                *)
(***************************************************************************)
HasLine(t, line) == \E k \in 1..Len(t) : t[k] = line

\* the key and the value root tags are stored under in a store of a variant
TagKey(variant) == IF variant = "Org" THEN FILETAGS ELSE TAGS
TagValue(variant, tags) ==
    IF variant = "Org" THEN <<":">> \o Join(tags, <<":">>) \o <<":">>
    ELSE Sequence(tags)
TitleValue(variant, title) == IF variant = "Org" THEN title ELSE Str(title)

\* the store holds `value` under `key` if the value is given, and has no
\* such key if it is not
Holds(attributes, key, given, value) ==
    IF attributes[1] = "None" THEN ~given
    ELSE IF given THEN IndexMapGet(attributes[2], key) = Some(value)
    ELSE IndexMapGet(attributes[2], key) = None

\* every entry of the store `old` is at its place in `new`, with its value
\* unless its key is one of `keys`
InPlace(old, new, keys) ==
    old[1] # "None" =>
        /\ Len(new[2]) >= Len(old[2])
        /\ \A k \in 1..Len(old[2]) :
               /\ new[2][k][1] = old[2][k][1]
               /\ old[2][k][1] \notin keys => new[2][k] = old[2][k]

\* what Document::into_string does to the store of `document` before it
\* renders it
Synced(document, f, swap) ==
    AttributesSetTags(
        AttributesSetTitle(document.attributes, document.root.title, f, swap),
        document.root.tags, f, swap)

\* the variant of the store that is rendered
SyncedVariant(document, f) ==
    IF document.attributes[1] # "None" THEN document.attributes[1]
    ELSE IF f = "Org" THEN "Org" ELSE "MarkdownYaml"

\* the written text shows the title: `#+title: T`, `title: T`, `title = "T"`
TitleShown(t, title, f, variant) ==
    IF f = "Org" THEN HasLine(t, <<"#", "+", "t", "i", "t", "l", "e", ":", " ">> \o title)
    ELSE IF variant = "MarkdownToml"
    THEN HasLine(t, <<"t", "i", "t", "l", "e", " ", "=", " ", "\"">> \o title \o <<"\"">>)
    ELSE HasLine(t, <<"t", "i", "t", "l", "e", ":", " ">> \o title)

\* the written text shows the tags: `#+filetags: :a:b:`, `tags:` with one
\* `- tag` line each, `tags = ["a", "b"]`
TagsShown(t, tags, f, variant) ==
    IF f = "Org"
    THEN HasLine(t, <<"#", "+", "f", "i", "l", "e", "t", "a", "g", "s", ":", " ", ":">> \o Join(tags, <<":">>) \o <<":">>)
    ELSE IF variant = "MarkdownToml"
    THEN HasLine(t, <<"t", "a", "g", "s", " ", "=", " ">> \o TomlValue(Sequence(tags)))
    ELSE \E k \in 1..Len(t) :
            /\ t[k] = <<"t", "a", "g", "s", ":">>
            /\ k + Len(tags) <= Len(t)
            /\ \A j \in 1..Len(tags) : t[k + j] = <<"-", " ">> \o tags[j]

C18_SyncedStore(document, f, swap) ==
    LET variant == SyncedVariant(document, f)
        title == document.root.title
        tags == document.root.tags
        synced == Synced(document, f, swap)
    IN /\ Holds(synced, TITLE, title # <<>>, TitleValue(variant, title))
       /\ Holds(synced, TagKey(variant), tags # <<>>, TagValue(variant, tags))
       /\ synced[1] \in {variant, "None"}
       /\ synced[1] = "None" <=>
              (document.attributes[1] = "None" /\ title = <<>> /\ tags = <<>>)
       /\ (title # <<>> /\ tags # <<>>)
              => InPlace(document.attributes, synced, {TITLE, TagKey(variant)})

\* C18: Document::into_string copies root.title and root.tags into the
\* attribute store before rendering: the title under `title`, the tags
\* under `filetags` as `:a:b:` (Org) or under `tags` as a list (Markdown),
\* an existing value replaced in place so that the other attributes keep
\* their order, the store created in the output format if there was none,
\* the key removed when the root title (tag list) is empty; and the root's
\* title and tags are in the written text.
C18_RootSync ==
    dpc \in {"printed", "converted"}
    => /\ \A swap \in BOOLEAN : C18_SyncedStore(dret[2], format, swap)
       /\ dret[2].root.title # <<>>
              => TitleShown(out, dret[2].root.title, format,
                            SyncedVariant(dret[2], format))
       /\ dret[2].root.tags # <<>>
              => TagsShown(out, dret[2].root.tags, format,
                           SyncedVariant(dret[2], format))

\* the YAML entry the claim gives an Org entry: `filetags` becomes `tags`
\* with the non-empty segments of its value as a list, every other key
\* keeps its value
YamlOfOrgEntry(e) ==
    IF e[1] = FILETAGS
    THEN YamlEntry(<<TAGS, Sequence(SelectSeq(Split(e[2], <<":">>),
                                              LAMBDA t : t # <<>>))>>)
    ELSE YamlEntry(<<e[1], Str(e[2])>>)

\* Org attributes rendered as Markdown: one YAML entry per Org key, in the
\* same order, between the fences
C19_OrgAsMarkdown(document, t) ==
    LET map == Synced(document, "Markdown", FALSE)[2]
    IN t = <<<<"-", "-", "-">>>>
           \o Flatten([k \in 1..Len(map) |-> YamlOfOrgEntry(map[k])])
           \o <<<<"-", "-", "-">>>> \o EmptyText

\* Markdown attributes rendered as Org: the tags are on a `#+filetags:`
\* line as `:t1:t2:`, and there is no `#+tags:` line
C19_MarkdownAsOrg(document, t) ==
    /\ HasLine(t, <<"#", "+", "f", "i", "l", "e", "t", "a", "g", "s", ":", " ", ":">> \o Join(document.root.tags, <<":">>) \o <<":">>)
    /\ \A k \in 1..Len(t) : ~StartsWith(t[k], <<"#", "+", "t", "a", "g", "s", ":">>)

\* C19: rendering Org attributes as Markdown emits one YAML entry per Org
\* key in the same order, with `filetags` renamed to `tags` and its value
\* split into a list; rendering Markdown attributes as Org renames `tags`
\* back to `filetags` with value `:t1:t2:`; so an Org `#+filetags:` line
\* converted to Markdown and back is the identical Org line.
C19_Conversion ==
    (dpc \in {"printed", "converted"} /\ dret[2].root.tags # <<>>)
    => /\ (dret[2].attributes[1] = "Org" /\ format = "Markdown")
             => C19_OrgAsMarkdown(dret[2], out)
       /\ (IsMapping(dret[2].attributes) /\ format = "Org")
             => C19_MarkdownAsOrg(dret[2], out)
       /\ (dret[2].attributes[1] = "Org" /\ format = "Markdown"
             /\ dpc = "converted")
             => /\ IsOk(reparsed)
                /\ HasLine(reparsed[2],
                           <<"#", "+", "f", "i", "l", "e", "t", "a", "g", "s", ":", " ", ":">> \o Join(dret[2].root.tags, <<":">>)
                           \o <<":">>)

(***************************************************************************)
(* Properties of refiling, checked under SpecRefile                        *)
(***************************************************************************)
\* the paths to the nodes that the titles lead to from the root
TitlePaths(root, heading_path) ==
    {q \in Paths(root) :
        /\ Len(q) = Len(heading_path)
        /\ \A i \in 1..Len(q) :
               NodeAt(root, SubSeq(q, 1, i)).title = heading_path[i]}

\* the node with `offset` added to its level and to its descendants'
RECURSIVE Relevelled(_, _)
Relevelled(node, offset) ==
    [node EXCEPT !.level = @ + offset,
                 !.children = [k \in 1..Len(@) |-> Relevelled(@[k], offset)]]

\* the tree with the nodes, re-levelled to one below the node at `target`,
\* appended to that node's children
Refiled(root, target, nodes) ==
    SetAt(root, target,
          [NodeAt(root, target) EXCEPT !.children =
              @ \o [k \in 1..Len(nodes) |->
                       Relevelled(nodes[k],
                                  NodeAt(root, target).level + 1
                                      - nodes[k].level)]])

\* C20: refile(nodes, Some(path), doc) follows the `::`-separated titles
\* from the root; if the target node is found, every given node is
\* re-levelled to target.level + 1, its descendants shifted by the same
\* offset, and appended in the given order after the target's children,
\* the rest of the document unchanged, add_child never fails and Some(())
\* is returned; if the path is not found None is returned and the document
\* is unchanged; with no path the nodes are appended to the root at level 1.
C20_Refile ==
    (call.n > 0 /\ call.op = "refile")
    => LET targets ==
               IF IsSome(call.target_heading)
               THEN TitlePaths(call.before,
                               Split(Unwrap(call.target_heading), <<":", ":">>))
               ELSE {<<>>}
       IN IF targets = {}
          THEN call.result = Ok(None) /\ dret[2].root = call.before
          ELSE /\ call.result = Ok(Some(<<>>))
               /\ \E q \in targets :
                      dret[2].root = Refiled(call.before, q, call.nodes)

(***************************************************************************)
(* Properties of marking done, checked under SpecDone                      *)
(***************************************************************************)
Repeats(ts) == IsSome(ts.repeater)

\* the timestamp advanced to its first repeat strictly after its start
NextOf(ts) ==
    [ts EXCEPT !.start.date =
        Unwrap(FirstRepeatAfterStart(ts.start.date, Unwrap(ts.repeater)))]

\* a planning slot of the repeating copy: the advanced timestamp if the
\* slot repeats, nothing if it does not
NextSlot(slot) ==
    IF IsSome(slot) /\ Repeats(Unwrap(slot)) THEN Some(NextOf(Unwrap(slot)))
    ELSE None

\* the properties of the repeating copy: LAST_REPEAT is there exactly when
\* a completion time is given, everything else is the node's
LastRepeatSet(node, copy, completion_time) ==
    /\ copy.properties.id = node.properties.id
    /\ DOMAIN copy.properties.inner =
           DOMAIN node.properties.inner
           \cup (IF IsSome(completion_time) THEN {LAST_REPEAT} ELSE {})
    /\ \A k \in DOMAIN node.properties.inner :
           copy.properties.inner[k] = node.properties.inner[k]

\* the CompletedNode the claim describes for a node
C21_Completed(node, c, completion_time) ==
    LET repeating == SelectSeq(node.timestamps, Repeats)
        done == [node EXCEPT !.keyword = Some(KeywordNotRepeating)]
    IN IF repeating = <<>> /\ NextSlot(node.planning.deadline) = None
          /\ NextSlot(node.planning.scheduled) = None
          /\ NextSlot(node.planning.closed) = None
       THEN c = <<"Done", done>>
       ELSE /\ c[1] = "Repeating"
            /\ c[2] = done
            /\ c[3].keyword = Some(KeywordRepeating)
            /\ c[3].timestamps = [k \in 1..Len(repeating) |-> NextOf(repeating[k])]
            /\ c[3].planning = [deadline |-> NextSlot(node.planning.deadline),
                                scheduled |-> NextSlot(node.planning.scheduled),
                                closed |-> NextSlot(node.planning.closed)]
            /\ LastRepeatSet(node, c[3], completion_time)
            /\ c[3].children = node.children
            /\ [c[3] EXCEPT !.keyword = node.keyword,
                            !.timestamps = node.timestamps,
                            !.planning = node.planning,
                            !.properties = node.properties] = node

\* C21: mark_nodes_done returns exactly one CompletedNode per input node,
\* in input order; a node without a repeating timestamp yields Done with
\* only its keyword changed; a node with one yields Repeating, whose
\* completed copy differs from the input only in its keyword and whose
\* repeating copy has the repeating keyword, every repeating timestamp
\* advanced to its next repeat strictly after its own start date and every
\* non-repeating timestamp removed; children are never modified, and
\* LAST_REPEAT is set only on repeating copies when a completion time is
\* given.
C21_MarkDone ==
    (call.n > 0 /\ call.op = "mark_nodes_done")
    => /\ IsOk(call.result)
       /\ Len(call.result[2]) = Len(call.nodes)
       /\ \A k \in 1..Len(call.nodes) :
              C21_Completed(call.nodes[k], call.result[2][k],
                            call.completion_time)

(***************************************************************************)
(* Properties of parent selection, checked under SpecTree                  *)
(***************************************************************************)
\* the paths of the headings below `node`, in document order
RECURSIVE HeadingPaths(_, _)
RECURSIVE ChildrenPaths(_, _, _)
ChildrenPaths(node, path, k) ==
    IF k > Len(node.children) THEN <<>>
    ELSE HeadingPaths(node.children[k], Append(path, k))
         \o ChildrenPaths(node, path, k + 1)
HeadingPaths(node, path) == <<path>> \o ChildrenPaths(node, path, 1)

\* the number, in document order, of the heading at `path` (0: the root)
HeadingNumber(root, path) ==
    CHOOSE k \in 0..Len(ds.lines) : HeadingPaths(root, <<>>)[k + 1] = path

\* the most recent heading before the k-th whose level is strictly smaller
\* (0: there is none, the root)
ExpectedParent(k) ==
    LET smaller == {j \in 1..(k - 1) : TextLevel(j) < TextLevel(k)}
    IN IF smaller = {} THEN 0 ELSE CHOOSE j \in smaller : \A i \in smaller : i <= j

\* in the tree the headings of the text appear in document order, each at
\* its level and under its expected parent
ParentsSelected(root) ==
    /\ Len(HeadingPaths(root, <<>>)) = Len(ds.lines) + 1
    /\ \A k \in 1..Len(ds.lines) :
           LET path == HeadingPaths(root, <<>>)[k + 1]
           IN /\ NodeAt(root, path).level = TextLevel(k)
              /\ HeadingNumber(root, SubSeq(path, 1, Len(path) - 1))
                     = ExpectedParent(k)

\* C22: whenever Document::from_str returns Ok, each heading's parent in
\* the tree is the most recent preceding heading with a strictly smaller
\* level, or the root if there is none.
C22_ParentSelection ==
    (dpc = "returned" /\ IsOk(dret) /\ call.n = 0)
    => ParentsSelected(dret[2].root)

\* a document was returned in which a heading follows a deeper one and is
\* attached under an ancestor of it that is not the root
C22_Witness ==
    /\ dpc = "returned" /\ IsOk(dret) /\ call.n = 0
    /\ \E k \in 2..Len(ds.lines) :
           TextLevel(k) < TextLevel(k - 1) /\ ExpectedParent(k) > 0

(***************************************************************************)
(* Properties of the parser's states, checked under SpecTree and SpecDoc   *)
(***************************************************************************)
\* the line the next iteration reads is recognised as a heading
AtHeading ==
    /\ dpc = "loop" /\ ds.flow = Ok("run") /\ ds.i < Len(ds.lines)
    /\ IsOk(FromHeadingStr(ds.lines[ds.i + 1], format))
    /\ IsSome(FromHeadingStr(ds.lines[ds.i + 1], format)[2])

\* the iteration has finalised the body of the previous node (or of the
\* root), started the node of the heading and set the state to Planning
HeadingTaken ==
    /\ ds'.flow = Ok("run")
    /\ ds'.loc = <<"Planning">>
    /\ ds'.i = ds.i + 1
    /\ ds'.curr_node = Unwrap(FromHeadingStr(ds.lines[ds.i + 1], format)[2])
    /\ ds'.curr_body = <<>>
    /\ IF IsStart(ds.loc)
       THEN ds'.root = [ds.root EXCEPT !.body = FinishBody(ds.curr_body)]
       ELSE LET parent == NodeAt(ds'.root, ds.curr_parent)
            IN /\ parent.children # <<>>
               /\ parent.children[Len(parent.children)] =
                      [ds.curr_node EXCEPT !.body = FinishBody(ds.curr_body)]

\* C23: whatever state the parser is in, a line recognised as a heading
\* finalises the body of the previous node (or of the root), starts a new
\* node and sets the state to Planning; once the first heading has been
\* seen the parser never returns to a start state and the root body
\* receives no further lines.
C23_HeadingPreempts ==
    [][(dpc = "loop" /\ ds' # ds)
       => /\ AtHeading => HeadingTaken
          /\ ~IsStart(ds.loc) => /\ ~IsStart(ds'.loc)
                                 /\ ds'.root.body = ds.root.body]_vars

\* the line the next iteration reads, which is not recognised as a heading
AtLine(line) ==
    /\ dpc = "loop" /\ ds.flow = Ok("run") /\ ds.i < Len(ds.lines)
    /\ ~AtHeading
    /\ line = ds.lines[ds.i + 1]

\* the line is a DEADLINE, SCHEDULED or CLOSED line with a timestamp
IsPlanningLine(line) ==
    /\ IsSome(PlanningAddLine(DefaultPlanning, line))
    /\ IsOk(Unwrap(PlanningAddLine(DefaultPlanning, line))[1])

\* the step the claim describes for a line that is no heading
RegionStep(line) ==
    /\ ds.loc = <<"Planning">> =>
           /\ ds.curr_body = <<>>
           /\ IF Trim(line) = PropertiesOpener(format)
              THEN ds'.loc = <<"Properties">> /\ ds'.i = ds.i + 1
              ELSE IF IsPlanningLine(line)
              THEN ds'.loc = <<"Planning">> /\ ds'.i = ds.i + 1
              ELSE IsSome(PlanningAddLine(DefaultPlanning, line))
                   \/ (ds' = [ds EXCEPT !.loc = <<"Body">>])
    /\ ds.loc = <<"Properties">> =>
           /\ ds.curr_body = <<>>
           /\ IF Trim(line) = PropertiesCloser(format)
              THEN ds' = [ds EXCEPT !.loc = <<"Body">>, !.i = @ + 1]
              ELSE ds'.flow = Ok("run") => ds'.loc = <<"Properties">>
    /\ ds.loc = <<"Body">> =>
           ds' = [ds EXCEPT !.curr_body = Append(@, line), !.i = @ + 1]

OrgRank(loc) ==
    IF loc[2] = "Beginning" THEN 0 ELSE IF loc[2] = "Properties" THEN 1 ELSE 2

\* the text with the line appended as a further line
WithLine(t, line) == IF t = EmptyText THEN <<line>> ELSE Append(t, line)

\* the step the claim describes for a line read in an Org start sub-state
OrgRootStep(line) ==
    /\ IsStart(ds'.loc) /\ OrgRank(ds'.loc) >= OrgRank(ds.loc)
    /\ (ds.loc[2] = "Beginning" /\ Trim(line) = <<>>)
           => ds' = [ds EXCEPT !.i = @ + 1]
    /\ (ds'.loc[2] = "Properties" /\ ds.loc[2] # "Properties")
           => /\ ds.loc[2] = "Beginning"
              /\ Trim(line) = PropertiesOpener(format)
              /\ \A k \in 1..ds.i : Trim(ds.lines[k]) = <<>>
    /\ (ds.loc[2] = "Beginning" /\ Trim(line) = PropertiesOpener(format))
           => ds' = [ds EXCEPT !.loc = <<"OrgStart", "Properties">>, !.i = @ + 1]
    /\ (ds.loc[2] = "Beginning" /\ Trim(line) # PropertiesOpener(format)
            /\ Trim(line) # <<>>)
           => ds' = [ds EXCEPT !.loc = <<"OrgStart", "Content">>]
    /\ ds.loc[2] = "Content"
           => IF StartsWith(line, <<"#", "+">>)
              THEN ds' = [ds EXCEPT !.document_attributes = WithLine(@, line),
                                    !.i = @ + 1]
              ELSE ds' = [ds EXCEPT !.curr_body = Append(@, line), !.i = @ + 1]

\* C25: in an Org document, before the first heading, the states advance
\* only Beginning -> Properties -> Content (or Beginning -> Content), never
\* backwards; leading blank lines are skipped; a `:PROPERTIES:` line is
\* the drawer opener only as the first non-blank line; once in Content
\* every line starting with `#+` is appended, in order, to the attribute
\* store and every other line, blank ones and a later `:PROPERTIES:` line
\* included, is appended verbatim to the root body.
C25_OrgRoot ==
    [][\A line \in {ds.lines[k] : k \in 1..Len(ds.lines)} :
           (AtLine(line) /\ ds' # ds /\ ds.loc[1] = "OrgStart")
           => OrgRootStep(line)]_vars

\* after a leading blank line the root is in Content with an attribute line
\* stored and a `:PROPERTIES:` line in its body
C25_Witness ==
    /\ dpc = "loop" /\ ds.loc = <<"OrgStart", "Content">>
    /\ ds.lines[1] = <<>>
    /\ ds.document_attributes # EmptyText
    /\ \E k \in 1..Len(ds.curr_body) : ds.curr_body[k] = PropertiesOpener(format)

\* the step the claim describes for a line read in a Markdown start
\* sub-state
MarkdownRootStep(line) ==
    /\ (ds'.loc[2] = "Frontmatter" /\ ds.loc[2] # "Frontmatter")
           => /\ Fence(Trim(line))
              /\ ds.loc = <<"MarkdownStart", "Beginning", FALSE>>
              /\ \A k \in 1..ds.i : Trim(ds.lines[k]) = <<>>
    /\ (ds.loc = <<"MarkdownStart", "Beginning", FALSE>> /\ Fence(Trim(line)))
           => ds'.loc = <<"MarkdownStart", "Frontmatter">>
    /\ (ds.loc[2] = "Frontmatter" /\ Fence(Trim(line)))
           => ds'.loc = <<"MarkdownStart", "Beginning", TRUE>>
    /\ (ds.loc = <<"MarkdownStart", "Beginning", FALSE>> /\ Trim(line) = <<>>)
           => ds' = [ds EXCEPT !.i = @ + 1]
    /\ (ds.loc = <<"MarkdownStart", "Beginning", TRUE>> /\ Trim(line) = <<>>)
           => ds' = [ds EXCEPT !.curr_body = Append(@, <<>>), !.i = @ + 1]
    /\ (ds.loc = <<"MarkdownStart", "Beginning", TRUE>>
            /\ Trim(line) = PropertiesOpener(format))
           => ds' = [ds EXCEPT !.curr_body = <<>>,
                               !.loc = <<"MarkdownStart", "Properties">>,
                               !.i = @ + 1]
    /\ (ds.loc = <<"MarkdownStart", "Beginning", TRUE>> /\ Trim(line) # <<>>
            /\ Trim(line) # PropertiesOpener(format))
           => ds' = [ds EXCEPT !.loc = <<"MarkdownStart", "Content">>]
    /\ ds.loc[2] = "Content"
           => ds' = [ds EXCEPT !.curr_body = Append(@, line), !.i = @ + 1]

\* C26: in a Markdown document a `---`/`+++` fence opens a frontmatter
\* block at most once and only before any property drawer or content;
\* after the block has closed, blank lines are buffered as root body,
\* discarded if a property-drawer opener follows and kept if content
\* follows; a second fence line after the block has closed is root body
\* content; blank lines before any frontmatter are skipped.
C26_MarkdownRoot ==
    [][\A line \in {ds.lines[k] : k \in 1..Len(ds.lines)} :
           (AtLine(line) /\ ds' # ds /\ ds.loc[1] = "MarkdownStart")
           => MarkdownRootStep(line)]_vars

\* after a closed frontmatter block, a kept blank line and a second fence
\* are the root body
C26_Witness ==
    /\ dpc = "loop" /\ ds.loc = <<"MarkdownStart", "Content">>
    /\ Len(ds.document_attributes) = 2
    /\ ds.curr_body = <<<<>>, <<"-", "-", "-">>>>

(***************************************************************************)
(* Properties of the title phase and of the pre-title phase of the heading *)
(* tokenizer, checked step by step under SpecHeading                       *)
(***************************************************************************)
\* the iteration about to run reads, in the title phase, the character c
\* followed by neither a space nor c itself
AtStarter(c) ==
    /\ hpc = "loop" /\ hs.flow = "loop" /\ hs.i < Len(hs.chars)
    /\ hs.loc = "Title"
    /\ hs.chars[hs.i + 1] = c
    /\ hs.chars[hs.i + 2] \notin {" ", c}

\* the characters of the line from the one being read to its end
RunToEnd == SubSeq(heading, hs.i + 1, Len(heading))

\* a colon-delimited tag list: it starts and ends with `:` and has only tag
\* characters and `:` in between
IsTagList(run) ==
    /\ Len(run) >= 2 /\ run[1] = ":" /\ run[Len(run)] = ":"
    /\ \A k \in 1..Len(run) :
           IsAlphanumeric(run[k]) \/ run[k] \in {":", "_", "@"}

\* the tags of a tag list
TagsOf(run) == Split(SubSeq(run, 2, Len(run) - 1), <<":">>)

\* the character read is kept as a title character and the next is read
KeptInTitle ==
    hs' = [hs EXCEPT !.curr = Append(@, hs.chars[hs.i + 1]), !.i = @ + 1]

\* C27: in the title phase a run starting at a `:` not followed by a space
\* or another `:` is extracted as the node's tags only if it is a
\* well-formed colon-delimited tag list (tag characters alphanumeric, `_`
\* or `@`) ending with `:` as the last character of the line; otherwise no
\* tags are set and all of the run's characters stay in the title.
C27_TagExtraction ==
    [][(AtStarter(":") /\ hs' # hs)
       => IF IsTagList(RunToEnd)
          THEN hs' = [hs EXCEPT !.node.tags = TagsOf(RunToEnd),
                                !.flow = "break"]
          ELSE KeptInTitle]_vars

\* the index of the first `>` at or after the character being read, or the
\* length of the line when there is none
NextCloser ==
    LET closers == {j \in hs.i..(Len(heading) - 1) : heading[j + 1] = ">"}
    IN IF closers = {} THEN Len(heading)
       ELSE CHOOSE j \in closers : \A k \in closers : j <= k

\* the text from the `<` being read up to the next `>` is a valid timestamp
ValidCandidate ==
    /\ NextCloser < Len(heading)
    /\ IsOk(TimestampFromStr(SubSeq(heading, hs.i + 1, NextCloser + 1)))

\* C28: in the title phase, when the text from a `<` candidate up to the
\* next `>` is a valid timestamp, exactly those characters are removed
\* from the title and the timestamp is appended to node.timestamps; when
\* it is not valid, or no `>` follows, no timestamp is added and every
\* character of the line after the candidate's `<` remains in the title in
\* its original order.  (A space directly after the closing `>` may go with
\* the timestamp.)
C28_TimestampExtraction ==
    [][(AtStarter("<") /\ hs' # hs)
       => IF ValidCandidate
          THEN \E skip \in {0, 1} :
                  /\ skip = 1 => hs.chars[NextCloser + 2] = " "
                  /\ hs' = [hs EXCEPT
                               !.node.timestamps =
                                   Append(@, TimestampFromStr(
                                       SubSeq(heading, hs.i + 1,
                                              NextCloser + 1))[2]),
                               !.i = NextCloser + 1 + skip]
          ELSE KeptInTitle]_vars

\* the token of the line that starts at index p, and the index it starts at
TokenAt(p) ==
    LET ends == {j \in p..(Len(hs.chars) - 1) : hs.chars[j + 1] = " "}
    IN SubSeq(hs.chars, p + 1, CHOOSE j \in ends : \A k \in ends : j <= k)

\* the tokens the pre-title phase has scanned when the title starts, each
\* with the index it starts at
Scanned ==
    LET p1 == hs.node.level + 1
        p2 == p1 + Len(TokenAt(p1)) + 1
    IN IF hs.i = p1 + Len(TokenAt(p1)) THEN {<<p1, TokenAt(p1)>>}
       ELSE {<<p1, TokenAt(p1)>>, <<p2, TokenAt(p2)>>}

\* the token is the node's keyword or its priority
Accepted(token, node) ==
    \/ IsSome(KeywordFromStr(token)) /\ node.keyword = KeywordFromStr(token)
    \/ node.keyword = Some(KeywordOther(token))
    \/ IsSome(ParsePriority(token)) /\ node.priority = ParsePriority(token)

\* C29: no token is lost in the pre-title phase: each token scanned before
\* the title starts is the node's keyword, its priority, or, after the
\* rewind, part of the title; the rewind returns the index to the start of
\* the earliest token that was not accepted as keyword or priority (or to
\* the space before it).
C29_NoTokenLost ==
    [][(hpc = "loop" /\ hs.loc = "PreTitle" /\ hs'.loc = "Title")
       => LET left == {tok \in Scanned : ~Accepted(tok[2], hs'.node)}
          IN /\ \A tok \in left : hs'.i <= tok[1]
             /\ \A tok \in left :
                    (\A other \in left : tok[1] <= other[1])
                    => hs'.i \in {tok[1] - 1, tok[1]}]_vars

\* C30: the heading tokenizer terminates and stays in bounds on every line:
\* the pre-title phase consumes at most two tokens and rewinds the index at
\* most once (the index goes back only on the step from the pre-title phase
\* to the title phase, which is never left), the rewind never goes below
\* index 0, the `unreachable!()` arm is never reached, and outside the
\* rewind every iteration moves the index forward.
C30_Terminates ==
    [][(hpc = "loop" /\ hs' # hs)
       => /\ hs.i < Len(hs.chars)
          /\ hs'.flow # "unreachable"
          /\ hs.loc = "PreTitle" => hs'.flow # "overflow"
          /\ hs'.i >= 0
          /\ hs'.tokens_parsed <= 2
          /\ hs.loc = "Title" => hs'.loc = "Title"
          /\ (hs'.flow = "loop" /\ ~(hs.loc = "PreTitle" /\ hs'.loc = "Title"))
                 => hs'.i > hs.i]_vars

\* a line of two tokens has been rewound to its first token and read to its
\* end in the title phase
C30_Witness ==
    /\ hpc = "returned" /\ hs.loc = "Title" /\ hs.tokens_parsed = 2
    /\ hs.i >= Len(hs.chars)
    /\ IsOk(hret) /\ IsSome(hret[2])
    /\ Unwrap(hret[2]).title = <<"a", " ", "B", "L">>

(***************************************************************************)
(* Properties of what Document::from_str returns, checked under SpecDoc    *)
(***************************************************************************)
\* the input has ended inside a property drawer, of the root or of a node
DrawerOpenAtEnd ==
    /\ ds.i >= Len(ds.lines)
    /\ \/ ds.loc = <<"Properties">>
       \/ (IsStart(ds.loc) /\ ds.loc[2] = "Properties")

\* C31: if a property drawer is opened, on the root or under a heading, and
\* the input ends before its closing marker, Document::from_str returns an
\* error rather than a document.
C31_UnclosedDrawer ==
    (dpc = "returned" /\ DrawerOpenAtEnd) => IsErr(dret)

\* the text the claim describes for an Org document: the root drawer, then
\* the attribute lines, then the rest of the root; the attribute lines
\* first when the root has no drawer
Spliced(document, attributes_str) ==
    LET root_str == NodeIntoString(document.root, "Org")
        drawer == PropertiesIntoString(document.root.properties, "Org")
    IN IF attributes_str = EmptyText THEN root_str
       ELSE IF drawer = EmptyText THEN attributes_str \o root_str
       ELSE drawer \o attributes_str
            \o SubSeq(root_str, Len(drawer) + 1, Len(root_str))

\* C32: a document whose root has a non-empty property drawer and non-empty
\* attributes is written to Org as the root drawer from `:PROPERTIES:` to
\* `:END:`, then the attribute lines exactly as rendered, with no character
\* added or removed, then the root body and children; when the root has no
\* drawer the attribute lines come first; re-parsing the output gives the
\* same root properties and attribute lines.
C32_OrgSplicing ==
    (dpc \in {"printed", "reparsed"} /\ format = "Org")
    => /\ \E swap \in BOOLEAN :
              out = Spliced(dret[2],
                            AttributesIntoString(Synced(dret[2], "Org", swap),
                                                 "Org"))
       /\ dpc = "reparsed"
              => /\ IsOk(reparsed)
                 /\ reparsed[2].root.properties = dret[2].root.properties
                 /\ reparsed[2].attributes = dret[2].attributes

(***************************************************************************)
(* Properties of parsed repeaters, checked under SpecTimestamp             *)
(***************************************************************************)
\* C33: every Timestamp that Timestamp::from_str returns Ok and that has a
\* repeater has a count of at least 1 (a zero count such as `+0d` is not
\* accepted), so that includes_date and get_next_repeat never take a
\* modulus or quotient by zero on a parsed timestamp.
C33_PositiveCount ==
    (tpc # "start" /\ IsOk(tret) /\ IsSome(tret[2].repeater))
    => /\ Unwrap(tret[2].repeater).count >= 1
       /\ IsOk(GetNextRepeat(tret[2], tret[2].start.date))
       /\ IsOk(IncludesDate(tret[2], tret[2].start.date))

(* Properties of Timestamp::includes_date, checked under SpecRepeat *)
\* the last call was includes_date on a timestamp with no repeater or with
\* a day or week repeater
AskedIncludes ==
    /\ tcall.op = "includes_date"
    /\ IsSome(tcall.self.repeater)
           => Unwrap(tcall.self.repeater).unit \in {"Day", "Week"}

\* E - S in days, 0 when the timestamp has no end
SpanDays(self) ==
    IF IsSome(self.end) THEN NumDays(Unwrap(self.end).date, self.start.date)
    ELSE 0

\* C34: for a timestamp with start date S, optional end date E >= S and a
\* repeater of period P days (count for days, 7 * count for weeks),
\* includes_date(d) is true exactly when d >= S and ((d - S) mod P) <=
\* (E - S), where E - S is 0 when there is no end; without a repeater it is
\* true exactly when S <= d <= E (d = S when there is no end).
C34_DayWeekInclusion ==
    AskedIncludes
    => LET S == tcall.self.start.date
           diff == NumDays(tcall.arg, S)
           span == SpanDays(tcall.self)
       IN IF IsSome(tcall.self.repeater)
          THEN LET P == PeriodDays(Unwrap(tcall.self.repeater))
               IN IF diff < 0 THEN tcall.result = Ok(FALSE)
                  ELSE /\ IsOk(tcall.result)
                       /\ P >= 1 => tcall.result = Ok(diff % P <= span)
          ELSE tcall.result = Ok(diff >= 0 /\ diff <= span)


(***************************************************************************)
(* Writing one node: Node::into_string on a node built from its parts      *)
(***************************************************************************)
\* the property keys of the nodes written: one key, two keys, and two keys
\* of which the upper-case one sorts first
PrintKeySets ==
    {{}, {<<"b">>}, {<<"b">>, <<"a">>}, {<<"a">>, <<"B">>}}

\* the children of the nodes written
PrintChildren ==
    {<<>>,
     <<Leaf(2, <<"c">>)>>,
     <<[Leaf(2, <<"c">>) EXCEPT !.body = Some(EmptyText),
                                !.planning.closed = Some(TsOnce)],
       Leaf(3, <<"d">>)>>}

\* the nodes handed to into_string: a level-1 node with every combination
\* of planning items, with and without an ID, with no body, an empty body
\* and a body of two lines
PrintNodes ==
    {[Leaf(1, <<"a">>) EXCEPT
         !.planning = [deadline |-> deadline, scheduled |-> scheduled,
                       closed |-> closed],
         !.properties = [id |-> id, inner |-> [k \in keys |-> <<"v">>]],
         !.body = body,
         !.children = children] :
        deadline \in {None, Some(TsOnce)},
        scheduled \in {None, Some(TsWeekly)},
        closed \in {None, Some(TsMonthly)},
        id \in {None, Some(<<"x">>)},
        keys \in PrintKeySets,
        body \in {None, Some(EmptyText), Some(<< <<"t">>, <<>> >>)},
        children \in PrintChildren}

InitPrint ==
    /\ format \in Formats
    /\ hret \in {Ok(Some(node)) : node \in PrintNodes}
    /\ hpc = "returned"
    /\ heading = Idle /\ hs = Idle /\ hout = Idle
    /\ text = Idle /\ ds = Idle /\ dpc = "idle" /\ dret = Idle /\ out = Idle
    /\ reparsed = Idle
    /\ call = Idle
    /\ stamp = Idle /\ tpc = "idle" /\ tret = Idle /\ tout = Idle
    /\ tback = Idle /\ tcall = Idle

NextPrint == HeadingPrint

SpecPrint == InitPrint /\ [][NextPrint]_vars

(* Properties of Node::into_string, checked under SpecPrint *)
\* the planning items that are present, in the order DEADLINE, SCHEDULED,
\* CLOSED, each with its name
PlanningPresent(p) ==
    SelectSeq(<< <<<<"D", "E", "A", "D", "L", "I", "N", "E">>, p.deadline>>,
                 <<<<"S", "C", "H", "E", "D", "U", "L", "E", "D">>,
                   p.scheduled>>,
                 <<<<"C", "L", "O", "S", "E", "D">>, p.closed>> >>,
              LAMBDA item : IsSome(item[2]))

\* the number of keys strictly before k in the order of code points
KeysBefore(keys, k) == Cardinality({m \in keys : m # k /\ StrLe(m, k)})

\* the key a drawer line is about: the text before the ": " of the line,
\* without the leading colon of Org
DrawerKey(line, f) ==
    LET from == IF f = "Org" THEN 2 ELSE 1
        colon == CHOOSE n \in from..Len(line) :
                     /\ line[n] = ":"
                     /\ \A m \in from..(n - 1) : line[m] # ":"
    IN SubSeq(line, from, colon - 1)

\* C35: for every non-root node Node::into_string emits, in this order and
\* each on its own line(s), the heading, the planning lines in the fixed
\* order DEADLINE, SCHEDULED, CLOSED, the property drawer with ID first (if
\* present) and the remaining keys in lexicographic order, the body, then
\* each child in order; empty sections produce no line, while a body of
\* Some("") produces exactly one empty line.
C35_SectionOrder ==
    (hpc = "printed" /\ Unwrap(hret[2]).level > 0)
    => LET node == Unwrap(hret[2])
           items == PlanningPresent(node.planning)
           keys == DOMAIN node.properties.inner
           has_id == IsSome(node.properties.id)
           np == Len(items)
           nid == IF has_id THEN 1 ELSE 0
           nd == IF has_id \/ keys # {} THEN 2 + nid + Cardinality(keys)
                 ELSE 0
           nb == IF IsSome(node.body) THEN Len(Unwrap(node.body)) ELSE 0
           own == 1 + np + nd + nb
           kids == Flatten([k \in 1..Len(node.children) |->
                               NodeIntoString(node.children[k], format)])
       IN /\ Len(hout) = own + Len(kids)
          /\ hout[1] = HeadingIntoString(node, format)
          /\ \A n \in 1..np :
                 hout[1 + n] = items[n][1] \o <<":", " ">>
                               \o TimestampIntoString(Unwrap(items[n][2]))
          /\ nd > 0
                 => /\ hout[2 + np] = PropertiesOpener(format)
                    /\ hout[1 + np + nd] = PropertiesCloser(format)
                    /\ has_id
                           => DrawerKey(hout[3 + np], format) = <<"I", "D">>
                    /\ \A n \in 1..Cardinality(keys) :
                           LET k == DrawerKey(hout[2 + np + nid + n], format)
                           IN /\ k \in keys
                              /\ KeysBefore(keys, k) = n - 1
          /\ IsSome(node.body)
                 => SubSeq(hout, 2 + np + nd, own) = Unwrap(node.body)
          /\ node.body = Some(EmptyText) => hout[own] = <<>>
          /\ SubSeq(hout, own + 1, Len(hout)) = kids

\* a node with the three planning items, an ID, two keys, an empty body and
\* two children has been written
C35_Witness ==
    /\ hpc = "printed"
    /\ LET node == Unwrap(hret[2])
       IN /\ node.level > 0
          /\ Len(PlanningPresent(node.planning)) = 3
          /\ IsSome(node.properties.id)
          /\ DOMAIN node.properties.inner = {<<"a">>, <<"B">>}
          /\ node.body = Some(EmptyText)
          /\ Len(node.children) = 2
          /\ Len(hout) = 14


(* Properties of timestamps without a repeater, checked under SpecRepeat *)
\* C36: for a timestamp without a repeater, get_next_repeat returns None
\* for every after_date, and into_next_repeat_after and into_next_repeat
\* return the original timestamp unchanged as Err.
C36_NoRepeater ==
    (tcall.op # "none" /\ ~IsSome(tcall.self.repeater))
    => /\ tcall.op = "get_next_repeat"
              => /\ tcall.result = Ok(None)
                 /\ IntoNextRepeatWith(tcall.self, tcall.result)
                        = Ok(Err(tcall.self))
       /\ tcall.op = "into_next_repeat"
              => tcall.result = Ok(Err(tcall.self))


(***************************************************************************)
(* Changing a level: Node::unchecked_set_level on a node with descendants  *)
(***************************************************************************)
\* the levels of the nodes and the levels asked for: the ends of the u8
\* range and both sides of the largest i8
LevelsBefore == {0, 1, 2, 126, 127, 128, 253}
LevelsAsked == {0, 1, 3, 127, 128, 129, 255}

\* a node alone, with a child one level down, and with a child two levels
\* down that has a child of its own
LevelNodes ==
    {Leaf(l, <<"a">>) : l \in LevelsBefore}
    \cup {[Leaf(l, <<"a">>) EXCEPT !.children = <<Leaf(l + 1, <<"b">>)>>] :
             l \in LevelsBefore}
    \cup {[Leaf(l, <<"a">>) EXCEPT
              !.children =
                  <<Leaf(l + 1, <<"b">>),
                    [Leaf(l + 2, <<"c">>) EXCEPT
                        !.children = <<Leaf(l + 2, <<"d">>)>>]>>] :
             l \in LevelsBefore}

InitLevel ==
    /\ format = "Org"
    /\ call \in {[n |-> 0, node |-> node] : node \in LevelNodes}
    /\ dpc = "idle"
    /\ text = Idle /\ ds = Idle /\ dret = Idle /\ out = Idle
    /\ reparsed = Idle
    /\ heading = Idle /\ hs = Idle /\ hpc = "idle" /\ hret = Idle
    /\ hout = Idle
    /\ stamp = Idle /\ tpc = "idle" /\ tret = Idle /\ tout = Idle
    /\ tback = Idle /\ tcall = Idle

\* `node.unchecked_set_level(level)`, in a build with overflow checks and in
\* one without
UncheckedSetLevelCall ==
    /\ call.n = 0
    /\ \E level \in LevelsAsked, checked \in BOOLEAN :
          call' = [n |-> 1, op |-> "unchecked_set_level", node |-> call.node,
                   level |-> level,
                   result |-> UncheckedSetLevel(call.node, level, checked)]
    /\ UNCHANGED <<format, hvars, dvars, tvars>>

NextLevel == UncheckedSetLevelCall

SpecLevel == InitLevel /\ [][NextLevel]_vars

(* Properties of Node::unchecked_set_level, checked under SpecLevel *)
\* the levels of a node and its descendants, in pre-order
RECURSIVE LevelsOf(_)
LevelsOf(node) ==
    <<node.level>>
    \o Flatten([k \in 1..Len(node.children) |-> LevelsOf(node.children[k])])

\* C37: unchecked_set_level(L) on a node of level l sets that node's level
\* to L and changes the level of every descendant by exactly L - l, so the
\* level differences inside the subtree are preserved; this holds for all
\* u8 levels for which the shifted levels stay within 0..255, without
\* arithmetic overflow in the signed 8-bit intermediate values.
C37_LevelShift ==
    (/\ call.n = 1 /\ call.op = "unchecked_set_level"
     /\ \A k \in 1..Len(LevelsOf(call.node)) :
            LevelsOf(call.node)[k] + (call.level - call.node.level)
                \in 0..U8Max)
    => /\ IsOk(call.result)
       /\ call.result[2].level = call.level
       /\ LevelsOf(call.result[2])
              = [k \in 1..Len(LevelsOf(call.node)) |->
                    LevelsOf(call.node)[k] + (call.level - call.node.level)]


(* Properties of the order of the parsed tree, checked under SpecDoc *)
\* the levels, by their marker runs, of the lines that are headings, in
\* the order of the lines
RECURSIVE HeadingLevels(_, _)
HeadingLevels(lines, f) ==
    IF lines = <<>> THEN <<>>
    ELSE (IF FromHeadingStr(Head(lines), f) \notin {Ok(None)}
          THEN <<LeadingMarkers(Head(lines), f)>> ELSE <<>>)
         \o HeadingLevels(Tail(lines), f)

\* C38: whenever Document::from_str returns Ok, the tree contains exactly
\* one non-root node per heading line of the input, and a pre-order
\* traversal of the tree (parent before children, children left to right)
\* visits those nodes in the order of their heading lines, each with the
\* level given by its heading.
C38_DocumentOrder ==
    (dpc = "returned" /\ IsOk(dret))
    => /\ Cardinality(Paths(dret[2].root))
              = 1 + Len(HeadingLevels(ds.lines, format))
       /\ LevelsOf(dret[2].root) = <<0>> \o HeadingLevels(ds.lines, format)


\* a document was returned whose text has a heading, a line that is no
\* heading, a deeper heading and then a heading of the first one's level
C38_Witness ==
    /\ dpc = "returned" /\ IsOk(dret)
    /\ HeadingLevels(ds.lines, format) = <<1, 2, 1>>
    /\ Len(ds.lines) = 4
    /\ Len(dret[2].root.children) = 2


====
